---------------------------- MODULE Spec2Model ----------------------------
(***************************************************************************)
(* A model of the two extractive summarizers of the repository,           *)
(* backend/text_summary.py (/api/text-summary) and                        *)
(* backend/document_summary.py (/api/document-summary).                   *)
(*                                                                         *)
(* Four specifications share the variables of the handlers:               *)
(*   Spec        the two request handlers, step by step, with the faults  *)
(*               the library calls can raise;                              *)
(*   SpecCount   the target sentence count of a level, for every sentence *)
(*               count up to MaxTotal;                                     *)
(*   SpecSelect  scoring fallback, ranking, selection and re-ordering on  *)
(*               explicit sentence lists;                                  *)
(*   SpecPoints  the punctuation of one key point, on explicit strings.   *)
(* Further specifications, each on variables of its own, follow the       *)
(* claims they serve: SpecSegment, SpecNormalize, SpecUpload, SpecRuns,   *)
(* SpecStats and SpecScore.                                                *)
(*                                                                         *)
(* Abstractions.  A sentence is its text identity (two sentences with the *)
(* same number have the same text).  A composite score is an integer in   *)
(* 0..ScoreScale standing for score * ScoreScale, so ScoreScale is 1.0.   *)
(* What TF-IDF and the sumy summarizers compute is an input: any score    *)
(* vector, any votes.  A library call may raise (fault = TRUE).            *)
(***************************************************************************)
EXTENDS Integers, Sequences, FiniteSets, TLC

VARIABLES
    svc,          \* "text" (text_summary.py) or "doc" (document_summary.py)
    level,        \* the requested level
    pc,           \* position of the handler / of the function under check
    textLen,      \* len(text) as the handler measures it
    textBlank,    \* text.strip() is empty
    nSent,        \* len(sentences) once segmented, -1 before
    target,       \* main_count / target, -1 before it is computed
    ran,          \* the pipeline steps that have executed
    failed,       \* the library calls that raised inside a step
    resp,         \* the HTTP response, code 0 while there is none
    sentences,    \* the sentence list (text identities)
    scores,       \* what the scorer's arithmetic yields, per index
    summary,      \* indices placed in the main summary, in output order
    executive,    \* indices placed in the executive summary, in output order
    points,       \* indices of the key points, in output order
    sent,         \* one sentence as a string of characters
    point,        \* the key point made of it
    tokens,       \* SpecSegment: the text handed to the segmenter, word by word
    valid,        \* SpecSegment: the sentences the segmenter returned
    raw,          \* SpecNormalize: the text before normalization
    clean,        \* SpecNormalize: the text normalized once, then twice
    disk,         \* SpecUpload: the upload folder, file name -> content
    reqs,         \* SpecUpload: the two requests in flight
    lib,          \* SpecRuns: what the libraries return for the input
    left,         \* SpecRuns: what a request leaves behind in the process
    outs,         \* SpecRuns: the responses of the requests so far
    wc,           \* SpecStats: the words of each sentence and of the rest
    statistics,   \* SpecStats: the statistics block of the response
    signals,      \* SpecScore: the raw measurements of one sentence
    score,        \* SpecScore: its signals and composite score
    paragraphs,   \* SpecParagraphs: the paragraphs of the main summary
    summary_result,  \* SpecParagraphs: what generate_professional_summary returns
    paragraph_count, \* SpecParagraphs: the count the response reports
    whisper_model,   \* SpecWhisper: the cached model, _whisper_model
    whisper_loading, \* SpecWhisper: the flag _whisper_loading
    request,         \* SpecWhisper: the threads serving transcribe_whisper_fast
    loader,          \* SpecWhisper: the thread each of them may have started
    audio,           \* SpecTranscribe: the duration, what each engine would give
    transcript,      \* SpecTranscribe: what smart_transcribe did and returned
    launcher,        \* SpecLauncher: where main of run_all_services stands
    proc,            \* SpecLauncher: the state of each service process
    input_sentences, \* SpecPlagiarism: what is measured on each input sentence
    response_data    \* SpecPlagiarism: the response of plagiarism_checker

\* The variables of the request handlers and of the first four specifications.
handlerVars == <<svc, level, pc, textLen, textBlank, nSent, target, ran, failed,
                 resp, sentences, scores, summary, executive, points, sent, point>>

\* The variables of the other specifications.
aux == <<tokens, valid, raw, clean, disk, reqs, lib, left, outs, wc,
         statistics, signals, score>>

\* The variables of SpecParagraphs.
paraVars == <<paragraphs, summary_result, paragraph_count>>

\* The variables of SpecWhisper.
whisperVars == <<whisper_model, whisper_loading, request, loader>>

\* The variables of SpecTranscribe.
transVars == <<audio, transcript>>

\* The variables of SpecLauncher.
launchVars == <<launcher, proc>>

\* The variables of SpecPlagiarism.
plagVars == <<input_sentences, response_data>>

\* The variables of the specifications after SpecScore.
more == <<paraVars, whisperVars, transVars, launchVars, plagVars>>

vars == <<svc, level, pc, textLen, textBlank, nSent, target, ran, failed,
          resp, sentences, scores, summary, executive, points, sent, point,
          tokens, valid, raw, clean, disk, reqs, lib, left, outs, wc,
          statistics, signals, score, more>>

---------------------------------------------------------------------------
\* Bounds of the model.
MaxTotal == 80      \* sentence counts of SpecCount
MaxLen == 101       \* text lengths of Spec
MaxSent == 5        \* sentence counts of Spec
MaxTextN == 4       \* list lengths of SpecSelect, text summarizer
MaxDocN == 5        \* list lengths of SpecSelect, document summarizer
ScoreScale == 1     \* scores are k / ScoreScale, k in 0..ScoreScale
MaxChars == 4       \* characters of a sentence in SpecPoints
MaxTokens == 5      \* words of a text in SpecSegment
WordChars == 4      \* characters of each of these words
MaxRaw == 5         \* characters of a text in SpecNormalize
MaxRequests == 2    \* concurrent requests in SpecUpload
MaxRuns == 2        \* requests served one after the other in SpecRuns
LongSentence == 700 \* words of a long sentence in SpecStats
MaxRest == 1        \* words of the text outside its valid sentences, SpecStats
MaxRowSum == 500    \* largest TF-IDF row sum in SpecScore, in hundredths
MaxPosTotal == 6    \* sentence counts in SpecScore
ManyMatches == 40   \* matches of a pattern in a long sentence, SpecScore
MaxParaN == 9       \* sentences of a document in SpecParagraphs
MaxCalls == 3       \* calls of transcribe_whisper_fast in SpecWhisper
MaxSeconds == 31    \* seconds of audio in SpecTranscribe
MaxServices == 3    \* entries of SERVICES in SpecLauncher
MaxInput == 2       \* sentences of the text in SpecPlagiarism

Services == {"text", "doc"}
\* "other" is any value that is not one of the three level names.
Levels == {"brief", "detailed", "comprehensive", "other"}

Max(a, b) == IF a >= b THEN a ELSE b
Min(a, b) == IF a <= b THEN a ELSE b

---------------------------------------------------------------------------
\* Target sentence count.
\* int(n * ratio) on Python floats equals (n * percent) \div 100 for every
\* n < 180 and each of the four ratios 0.15, 0.25, 0.35, 0.40.

level_configs ==
    [brief         |-> [ratio |-> 15, min |-> 3,  max |-> 6],
     detailed      |-> [ratio |-> 25, min |-> 5,  max |-> 12],
     comprehensive |-> [ratio |-> 40, min |-> 10, max |-> 20]]

MutMainCountNoFloor(lvl, sentence_count) ==
    LET config == IF lvl \in DOMAIN level_configs
                  THEN level_configs[lvl] ELSE level_configs["detailed"]
    IN  Min(config.max, (sentence_count * config.ratio) \div 100)

\* text_summary: config = level_configs.get(level, detailed); max(min, min(max, int(n * ratio)))
main_count(lvl, sentence_count) ==
    LET config == IF lvl \in DOMAIN level_configs
                  THEN level_configs[lvl] ELSE level_configs["detailed"]
    IN  Max(config.min, Min(config.max, (sentence_count * config.ratio) \div 100))

MutDocTargetSwapped(lvl, total) ==
    IF lvl = "comprehensive" THEN Max(4, Min(8, (total * 15) \div 100))
    ELSE IF lvl = "brief" THEN Max(12, Min(25, (total * 35) \div 100))
    ELSE Max(6, Min(15, (total * 25) \div 100))

\* generate_professional_summary: the if / elif / else on level
doc_target(lvl, total) ==
    IF lvl = "brief" THEN Max(4, Min(8, (total * 15) \div 100))
    ELSE IF lvl = "comprehensive" THEN Max(12, Min(25, (total * 35) \div 100))
    ELSE Max(6, Min(15, (total * 25) \div 100))

TargetCount(s, lvl, n) ==
    IF s = "text" THEN main_count(lvl, n) ELSE doc_target(lvl, n)

---------------------------------------------------------------------------
\* Python values and library functions.

\* A call returns a value or raises.
Ok(v) == [raised |-> FALSE, val |-> v]
Raise == [raised |-> TRUE, val |-> <<>>]

Range(q) == {q[i] : i \in DOMAIN q}
Idx(n) == [i \in 1..n |-> i]
\* seq[:k]
Take(q, k) == SubSeq(q, 1, Min(Max(k, 0), Len(q)))

\* sorted(d.items(), key=lambda x: x[1], reverse=True) on a dict whose keys, in
\* insertion order, are keys and whose values are sc: the sort is stable, so
\* equal scores keep the insertion order.
RECURSIVE MutInsertDescTiesFirst(_, _, _)
MutInsertDescTiesFirst(q, k, sc) ==
    IF q = <<>> THEN <<k>>
    ELSE IF sc[Head(q)] > sc[k]
         THEN <<Head(q)>> \o MutInsertDescTiesFirst(Tail(q), k, sc)
    ELSE <<k>> \o q

RECURSIVE InsertDesc(_, _, _)
\* q is sorted; k goes after every key whose score is at least its own
InsertDesc(q, k, sc) ==
    IF q = <<>> THEN <<k>>
    ELSE IF sc[Head(q)] >= sc[k] THEN <<Head(q)>> \o InsertDesc(Tail(q), k, sc)
    ELSE <<k>> \o q

RECURSIVE SortedDescFrom(_, _, _)
SortedDescFrom(q, keys, sc) ==
    IF keys = <<>> THEN q
    ELSE SortedDescFrom(InsertDesc(q, Head(keys), sc), Tail(keys), sc)

SortedDesc(keys, sc) == SortedDescFrom(<<>>, keys, sc)

\* sorted(xs) of distinct integers, given as the set of them
SortedAsc(S) ==
    [p \in 1..Cardinality(S) |->
        CHOOSE x \in S : Cardinality({y \in S : y < x}) = p - 1]

\* sentences.index(t): the first position holding text t (1-based here)
index(sents, t) == CHOOSE i \in 1..Len(sents) :
                      sents[i] = t /\ \A j \in 1..(i - 1) : sents[j] # t

\* The keys of a dict filled by "for sent in q: d[sent] = ...", in insertion
\* order, which is also the order of the "seen" de-duplication loop.
Unique(q) ==
    LET firsts == {i \in 1..Len(q) : \A j \in 1..(i - 1) : q[j] # q[i]}
        order == SortedAsc(firsts)
    IN  [p \in 1..Len(order) |-> q[order[p]]]

---------------------------------------------------------------------------
\* Scoring.  sc is what the TF-IDF arithmetic yields; fault says that a
\* library call inside the try block raised.

UniformScore(n) == [i \in 1..n |-> ScoreScale]

MutScoresPropagate(n, sc, fault) ==
    IF fault THEN Raise
    ELSE IF n < 3 THEN Ok(UniformScore(n)) ELSE Ok(sc)

\* text_summary.calculate_advanced_scores
calculate_advanced_scores(n, sc, fault) ==
    IF fault THEN Ok(UniformScore(n))
    ELSE IF n < 3 THEN Ok(UniformScore(n)) ELSE Ok(sc)

\* document_summary.calculate_sentence_importance
calculate_sentence_importance(n, sc, fault) ==
    IF fault THEN Ok(UniformScore(n))
    ELSE IF n < 3 THEN Ok(UniformScore(n)) ELSE Ok(sc)

---------------------------------------------------------------------------
\* Selection, document summarizer.

MutSelectedIdxUnsorted(sorted_scores, tgt) == Take(sorted_scores, tgt)

\* selected_idx = sorted([idx for idx, _ in sorted_scores[:target]])
selected_idx(sorted_scores, tgt) == SortedAsc(Range(Take(sorted_scores, tgt)))

\* exec_idx = sorted([idx for idx, _ in sorted_scores[:2]])
exec_idx(sorted_scores) == SortedAsc(Range(Take(sorted_scores, 2)))

generate_professional_summary(sents, sc, lvl, fault) ==
    LET n == Len(sents)
        r == calculate_sentence_importance(n, sc, fault)
    IN  IF r.raised
        THEN \* except Exception: the first 10 sentences, the first sentence
             [main |-> Take(Idx(n), 10),
              executive |-> Take(Idx(n), 1),
              selected_count |-> 10]
        ELSE LET sorted_scores == SortedDesc(Idx(n), r.val)
                 selected == selected_idx(sorted_scores, doc_target(lvl, n))
             IN  [main |-> selected,
                  executive |-> exec_idx(sorted_scores),
                  selected_count |-> Len(selected)]

\* generate_key_points: the indices of the points
generate_key_points(sents, sc, count, fault) ==
    LET n == Len(sents)
        r == calculate_sentence_importance(n, sc, fault)
    IN  IF r.raised THEN Raise
        ELSE Ok(SortedAsc(Range(Take(SortedDesc(Idx(n), r.val), count))))

---------------------------------------------------------------------------
\* Selection, text summarizer.

NumSummarizers == 5

\* sentence_votes of a text: every summarizer picked it, or none did.  With
\* the scores of SpecSelect these two values already order the texts of a
\* list in every way a vote count in 0..5 can.
VoteValues == {0, NumSummarizers}

\* vote_score * 0.55 + custom_score * 0.45, times 500 * ScoreScale
combined_score(votes, custom) ==
    votes * 55 * ScoreScale + custom * 45 * NumSummarizers

MutOrderedNoBreak(sents, selected, target_count) ==
    SelectSeq(Idx(Len(sents)), LAMBDA i : sents[i] \in selected)

MutOrderedFirstOccurrence(sents, selected, target_count) ==
    Take(SelectSeq(Idx(Len(sents)),
                   LAMBDA i : sents[i] \in selected /\ index(sents, sents[i]) = i),
         target_count)

\* for sentence in sentences: if sentence in selected: append; break at target_count
ordered_summary(sents, selected, target_count) ==
    Take(SelectSeq(Idx(Len(sents)), LAMBDA i : sents[i] \in selected),
         target_count)

\* the except branch of generate_ensemble_summary
ensemble_fallback(sents, sc, target_count, fault) ==
    LET n == Len(sents)
        r == calculate_advanced_scores(n, sc, fault)
    IN  IF r.raised THEN Raise
        ELSE Ok(SortedAsc(Range(Take(SortedDesc(Idx(n), r.val), target_count))))

\* votes[t] is sentence_votes.get(t, 0); sumyFault: the sumy set-up raised
generate_ensemble_summary(sents, sc, target_count, votes, sumyFault, f1, f2) ==
    LET n == Len(sents)
        r == calculate_advanced_scores(n, sc, f1)
    IN  IF sumyFault \/ r.raised
        THEN ensemble_fallback(sents, sc, target_count, f2)
        ELSE LET keys == Unique(sents)
                 combined_scores ==
                     [t \in Range(sents) |->
                         combined_score(votes[t], r.val[index(sents, t)])]
                 top_sentences == Take(SortedDesc(keys, combined_scores), target_count)
             IN  Ok(ordered_summary(sents, Range(top_sentences), target_count))

\* generate_executive_summary: the indices (sentences.index) of the texts joined
generate_executive_summary(sents, sc, fault) ==
    LET n == Len(sents)
        r == calculate_advanced_scores(n, sc, fault)
    IN  IF r.raised THEN Raise
        ELSE LET first_sentences == Take(sents, 2)
                 top_scored == Take(SortedDesc(Idx(n), r.val), 3)
                 candidates == first_sentences \o
                               [p \in 1..Len(top_scored) |-> sents[top_scored[p]]]
                 unique == Unique(candidates)
                 unique_scores == [t \in Range(unique) |-> r.val[index(sents, t)]]
                 top == Take(SortedDesc(unique, unique_scores), 2)
             IN  Ok([p \in 1..Len(top) |-> index(sents, top[p])])

\* bullet_count = min(7, max(3, sentence_count // 3))
bullet_count(sentence_count) == Min(7, Max(3, sentence_count \div 3))

\* generate_complete_bullet_points: the indices of the points
generate_complete_bullet_points(sents, sc, cnt, fault) ==
    LET n == Len(sents)
        r == calculate_advanced_scores(n, sc, fault)
    IN  IF r.raised THEN Raise
        ELSE LET count == Min(cnt, Max(1, n))
                 top_indices ==
                     SortedAsc(Range(Take(SortedDesc(Idx(n), r.val), count)))
                 kept == SelectSeq(top_indices, LAMBDA i : i >= 1 /\ i <= n)
             IN  Ok(Take(kept, count))

---------------------------------------------------------------------------
\* Key points: the punctuation of one point.  A string is a sequence of
\* characters; "w" stands for any character of a word.

Terminals == {".", "!", "?"}
Stray == {" ", ",", ";", ":"}
Chars == {"w"} \cup Stray \cup Terminals

RECURSIVE rstrip(_, _)
rstrip(q, S) ==
    IF q = <<>> THEN q
    ELSE IF q[Len(q)] \in S THEN rstrip(SubSeq(q, 1, Len(q) - 1), S) ELSE q

RECURSIVE lstrip(_, _)
lstrip(q, S) ==
    IF q = <<>> THEN q
    ELSE IF q[1] \in S THEN lstrip(Tail(q), S) ELSE q

\* str.strip()
strip(q) == lstrip(rstrip(q, {" "}), {" "})

\* str.endswith(('.', '!', '?'))
endswith_terminal(q) == q # <<>> /\ q[Len(q)] \in Terminals

MutBulletTruncated(sentence) ==
    LET s == strip(sentence)
    IN  IF endswith_terminal(s) THEN s ELSE Append(Take(s, 2), ".")

\* generate_complete_bullet_points, the body of its loop
complete_bullet_point(sentence) ==
    LET s == strip(sentence)
    IN  IF endswith_terminal(s) THEN s ELSE Append(rstrip(s, Stray), ".")

\* generate_key_points, the body of its loop
key_point(sentence) ==
    LET s == strip(sentence)
    IN  IF endswith_terminal(s) THEN s ELSE Append(s, ".")

---------------------------------------------------------------------------
\* The request handlers.

NoResp == [code |-> 0, kind |-> "none"]

MinTextChars == 50
MinDocChars == 100

MutEmptyInputOneThreshold(s, len, blank) == blank \/ len < MinTextChars

\* text_summary: "if not text" / "if len(text) < 50" on the stripped text;
\* document_summary: "if not text.strip() or len(text) < 100"
EmptyInput(s, len, blank) ==
    IF s = "text" THEN len = 0 \/ len < MinTextChars
    ELSE blank \/ len < MinDocChars

MutInsufficientBelowTwo(s, n) == n < 2

\* "if sentence_count < 3" / "if len(sentences) < 3"
InsufficientContent(s, n) == n < 3

\* The status code of a rejection: text_summary returns (..., 400);
\* document_summary raises, and its except clause returns (..., 500).
error_code(s, kind) == IF s = "text" THEN 400 ELSE 500

\* A segmented sentence is longer than 10 characters (split_into_sentences),
\* longer than 15 (split_sentences).
MinSentenceChars(s) == IF s = "text" THEN 11 ELSE 16
FitsIn(s, n, len) == n * MinSentenceChars(s) + (n - 1) <= len

\* extract_topics / extract_key_concepts: the except clauses return []
extract_topics(fault) == Ok(IF fault THEN "none" ELSE "topics")

\* The variables a specification does not use keep these values.
IdleHandler ==
    /\ textLen = 0 /\ textBlank = TRUE
    /\ ran = {} /\ failed = {} /\ resp = NoResp
IdleSelect ==
    /\ sentences = <<>> /\ scores = <<>>
    /\ summary = <<>> /\ executive = <<>> /\ points = <<>>
IdlePoints == sent = <<>> /\ point = <<>>
IdleSegment == tokens = <<>> /\ valid = <<>>
IdleNormalize == raw = <<>> /\ clean = <<>>
IdleUpload == disk = <<>> /\ reqs = <<>>
IdleRuns == lib = <<>> /\ left = <<>> /\ outs = <<>>
IdleStats == wc = <<>> /\ statistics = <<>>
IdleScore == signals = <<>> /\ score = <<>>
IdleParagraphs ==
    paragraphs = <<>> /\ summary_result = <<>> /\ paragraph_count = -1
IdleWhisper ==
    /\ whisper_model = "None" /\ whisper_loading = FALSE
    /\ request = <<>> /\ loader = <<>>
IdleTranscribe == audio = <<>> /\ transcript = <<>>
IdleLauncher == launcher = <<>> /\ proc = <<>>
IdlePlagiarism == input_sentences = <<>> /\ response_data = <<>>
IdleMore ==
    /\ IdleParagraphs /\ IdleWhisper /\ IdleTranscribe /\ IdleLauncher
    /\ IdlePlagiarism
IdleAux ==
    /\ IdleSegment /\ IdleNormalize /\ IdleUpload
    /\ IdleRuns /\ IdleStats /\ IdleScore /\ IdleMore

\* An exception that reaches the handler's except clause: 500.
Failure == [code |-> 500, kind |-> "Failure"]

InitHandler ==
    /\ svc \in Services
    /\ level \in Levels
    /\ textLen \in 0..MaxLen
    /\ textBlank \in BOOLEAN
    \* text_summary strips the text it reads; a blank document can be long
    /\ IF svc = "text" THEN textBlank = (textLen = 0) ELSE (textLen = 0 => textBlank)
    /\ pc = "imports"
    /\ nSent = -1 /\ target = -1
    /\ ran = {} /\ failed = {} /\ resp = NoResp
    /\ IdleSelect /\ IdlePoints /\ IdleAux

\* The import probe at the head of both handlers.
Imports ==
    /\ pc = "imports"
    /\ \E ok \in BOOLEAN :
          IF ok
          THEN /\ pc' = (IF svc = "text" THEN "check_empty" ELSE "file")
               /\ resp' = resp
          ELSE /\ pc' = "done"
               /\ resp' = [code |-> 500, kind |-> "MissingDependency"]
    /\ UNCHANGED <<svc, level, textLen, textBlank, nSent, target, ran, failed,
                   sentences, scores, summary, executive, points, sent, point,
                   aux, more>>

\* document_summary: the upload is read, saved and its text extracted.
ReadFile ==
    /\ pc = "file" /\ svc = "doc"
    /\ \E upload \in {"none", "unsupported", "unreadable", "ok"} :
          IF upload = "ok"
          THEN pc' = "check_empty" /\ resp' = resp
          ELSE /\ pc' = "done"
               /\ resp' = IF upload = "none"
                          THEN [code |-> 400, kind |-> "NoFile"]
                          ELSE [code |-> 500, kind |-> "Unreadable"]
    /\ UNCHANGED <<svc, level, textLen, textBlank, nSent, target, ran, failed,
                   sentences, scores, summary, executive, points, sent, point,
                   aux, more>>

CheckEmpty ==
    /\ pc = "check_empty"
    /\ IF EmptyInput(svc, textLen, textBlank)
       THEN /\ pc' = "done"
            /\ resp' = [code |-> error_code(svc, "EmptyInput"), kind |-> "EmptyInput"]
       ELSE pc' = "normalize" /\ resp' = resp
    /\ UNCHANGED <<svc, level, textLen, textBlank, nSent, target, ran, failed,
                   sentences, scores, summary, executive, points, sent, point,
                   aux, more>>

\* preprocess_text / clean_text
Normalize ==
    /\ pc = "normalize"
    /\ ran' = ran \cup {"normalize"}
    /\ pc' = "segment"
    /\ UNCHANGED <<svc, level, textLen, textBlank, nSent, target, failed, resp,
                   sentences, scores, summary, executive, points, sent, point,
                   aux, more>>

\* split_into_sentences / split_sentences: how many sentences the text holds
\* is an input.  The handler specification gives them distinct texts and equal
\* scores; SpecSelect varies texts and scores.
Segment ==
    /\ pc = "segment"
    /\ \E n \in 0..MaxSent :
          /\ FitsIn(svc, n, textLen)
          /\ nSent' = n
          /\ sentences' = Idx(n)
          /\ scores' = [i \in 1..n |-> 0]
    /\ ran' = ran \cup {"segment"}
    /\ pc' = "check_count"
    /\ UNCHANGED <<svc, level, textLen, textBlank, target, failed, resp,
                   summary, executive, points, sent, point,
                   aux, more>>

CheckCount ==
    /\ pc = "check_count"
    /\ IF InsufficientContent(svc, nSent)
       THEN /\ pc' = "done"
            /\ resp' = [code |-> error_code(svc, "InsufficientContent"),
                        kind |-> "InsufficientContent"]
       ELSE /\ pc' = (IF svc = "text" THEN "topics" ELSE "summarize")
            /\ resp' = resp
    /\ UNCHANGED <<svc, level, textLen, textBlank, nSent, target, ran, failed,
                   sentences, scores, summary, executive, points, sent, point,
                   aux, more>>

\* text_summary: detect_text_type, extract_topics;
\* document_summary: extract_key_concepts (after the summary)
Topics ==
    /\ pc = "topics"
    /\ \E fault \in BOOLEAN :
          LET r == extract_topics(fault)
          IN  /\ failed' = failed \cup (IF fault THEN {"topics"} ELSE {})
              /\ IF r.raised
                 THEN pc' = "done" /\ resp' = Failure
                 ELSE /\ pc' = (IF svc = "text" THEN "length" ELSE "key_points")
                      /\ resp' = resp
    /\ ran' = ran \cup {"topics"}
    /\ UNCHANGED <<svc, level, textLen, textBlank, nSent, target,
                   sentences, scores, summary, executive, points, sent, point,
                   aux, more>>

\* text_summary: main_count from level_configs
MainCount ==
    /\ pc = "length" /\ svc = "text"
    /\ target' = main_count(level, nSent)
    /\ pc' = "summarize"
    /\ UNCHANGED <<svc, level, textLen, textBlank, nSent, ran, failed, resp,
                   sentences, scores, summary, executive, points, sent, point,
                   aux, more>>

\* text_summary: main_summary = generate_ensemble_summary(clean_text, sentences, main_count)
EnsembleSummary ==
    /\ pc = "summarize" /\ svc = "text"
    /\ \E f \in {{}, {"score_main"}, {"sumy"}, {"sumy", "score_fallback"}} :
       \* no summarizer runs, so no sentence has a vote, once the set-up raised
       \E votes \in (IF "sumy" \in f THEN {[t \in Range(sentences) |-> 0]}
                     ELSE [Range(sentences) -> VoteValues]) :
          LET r == generate_ensemble_summary(sentences, scores, target, votes,
                       "sumy" \in f, "score_main" \in f, "score_fallback" \in f)
          IN  /\ failed' = failed \cup f
              /\ IF r.raised
                 THEN pc' = "done" /\ resp' = Failure /\ summary' = summary
                 ELSE pc' = "executive" /\ resp' = resp /\ summary' = r.val
    /\ ran' = ran \cup {"score", "select"}
    /\ UNCHANGED <<svc, level, textLen, textBlank, nSent, target,
                   sentences, scores, executive, points, sent, point,
                   aux, more>>

\* text_summary: executive_summary = generate_executive_summary(clean_text, sentences)
ExecutiveSummary ==
    /\ pc = "executive" /\ svc = "text"
    /\ \E fault \in BOOLEAN :
          LET r == generate_executive_summary(sentences, scores, fault)
          IN  /\ failed' = failed \cup (IF fault THEN {"score_exec"} ELSE {})
              /\ IF r.raised
                 THEN pc' = "done" /\ resp' = Failure /\ executive' = executive
                 ELSE pc' = "key_points" /\ resp' = resp /\ executive' = r.val
    /\ ran' = ran \cup {"executive"}
    /\ UNCHANGED <<svc, level, textLen, textBlank, nSent, target,
                   sentences, scores, summary, points, sent, point,
                   aux, more>>

\* text_summary: generate_complete_bullet_points(sentences, clean_text, count=bullet_count)
BulletPoints ==
    /\ pc = "key_points" /\ svc = "text"
    /\ \E fault \in BOOLEAN :
          LET r == generate_complete_bullet_points(sentences, scores,
                                                   bullet_count(nSent), fault)
          IN  /\ failed' = failed \cup (IF fault THEN {"score_points"} ELSE {})
              /\ IF r.raised
                 THEN pc' = "done" /\ resp' = Failure /\ points' = points
                 ELSE pc' = "respond" /\ resp' = resp /\ points' = r.val
    /\ ran' = ran \cup {"key_points"}
    /\ UNCHANGED <<svc, level, textLen, textBlank, nSent, target,
                   sentences, scores, summary, executive, sent, point,
                   aux, more>>

\* document_summary: result = generate_professional_summary(sentences, clean, level)
ProfessionalSummary ==
    /\ pc = "summarize" /\ svc = "doc"
    /\ \E fault \in BOOLEAN :
          LET r == generate_professional_summary(sentences, scores, level, fault)
          IN  /\ summary' = r.main
              /\ executive' = r.executive
              /\ failed' = failed \cup (IF fault THEN {"score_main"} ELSE {})
    /\ target' = doc_target(level, nSent)
    /\ ran' = ran \cup {"score", "select", "executive"}
    /\ pc' = "topics"
    /\ UNCHANGED <<svc, level, textLen, textBlank, nSent, resp,
                   sentences, scores, points, sent, point,
                   aux, more>>

\* document_summary: key_points = generate_key_points(sentences, clean, count=6)
KeyPoints ==
    /\ pc = "key_points" /\ svc = "doc"
    /\ \E fault \in BOOLEAN :
          LET r == generate_key_points(sentences, scores, 6, fault)
          IN  /\ failed' = failed \cup (IF fault THEN {"score_points"} ELSE {})
              /\ IF r.raised
                 THEN pc' = "done" /\ resp' = Failure /\ points' = points
                 ELSE pc' = "respond" /\ resp' = resp /\ points' = r.val
    /\ ran' = ran \cup {"key_points"}
    /\ UNCHANGED <<svc, level, textLen, textBlank, nSent, target,
                   sentences, scores, summary, executive, sent, point,
                   aux, more>>

\* The statistics and the 200 response.
Respond ==
    /\ pc = "respond"
    /\ resp' = [code |-> 200, kind |-> "summary"]
    /\ ran' = ran \cup {"stats"}
    /\ pc' = "done"
    /\ UNCHANGED <<svc, level, textLen, textBlank, nSent, target, failed,
                   sentences, scores, summary, executive, points, sent, point,
                   aux, more>>

Next ==
    \/ Imports
    \/ ReadFile
    \/ CheckEmpty
    \/ Normalize
    \/ Segment
    \/ CheckCount
    \/ Topics
    \/ MainCount
    \/ EnsembleSummary
    \/ ExecutiveSummary
    \/ BulletPoints
    \/ ProfessionalSummary
    \/ KeyPoints
    \/ Respond

Spec == InitHandler /\ [][Next]_vars

---------------------------------------------------------------------------
\* SpecCount: the target count of every level and sentence count.

InitCount ==
    /\ svc \in Services
    /\ level \in Levels
    /\ nSent \in 3..MaxTotal
    /\ pc = "count"
    /\ target = -1
    /\ IdleHandler /\ IdleSelect /\ IdlePoints /\ IdleAux

\* main_count (text_summary) / target (generate_professional_summary)
DetermineLength ==
    /\ pc = "count"
    /\ target' = TargetCount(svc, level, nSent)
    /\ pc' = "counted"
    /\ UNCHANGED <<svc, level, textLen, textBlank, nSent, ran, failed, resp,
                   sentences, scores, summary, executive, points, sent, point,
                   aux, more>>

NextCount == DetermineLength

SpecCount == InitCount /\ [][NextCount]_vars

---------------------------------------------------------------------------
\* SpecSelect: the selection steps of the handlers on explicit sentence lists.

\* Sentence lists up to renaming of the texts: text k first occurs before
\* text k + 1.  Equal numbers are sentences with the same text.
SentenceLists(n) ==
    {q \in [1..n -> 1..n] :
        /\ q[1] = 1
        /\ \A i \in 2..n : \E j \in 1..(i - 1) : q[i] <= q[j] + 1}

InitSelect ==
    /\ svc \in Services
    /\ level \in Levels
    /\ \E n \in 3..(IF svc = "text" THEN MaxTextN ELSE MaxDocN) :
          /\ nSent = n
          \* the document summarizer never compares sentence texts
          /\ sentences \in (IF svc = "text" THEN SentenceLists(n) ELSE {Idx(n)})
          /\ scores \in [1..n -> 0..ScoreScale]
    /\ target = (IF svc = "text" THEN main_count(level, nSent) ELSE -1)
    /\ pc = "summarize"
    /\ summary = <<>> /\ executive = <<>> /\ points = <<>>
    /\ IdleHandler /\ IdlePoints /\ IdleAux

NextSelect ==
    \/ EnsembleSummary
    \/ ExecutiveSummary
    \/ BulletPoints
    \/ ProfessionalSummary
    \/ Topics
    \/ KeyPoints

SpecSelect == InitSelect /\ [][NextSelect]_vars

---------------------------------------------------------------------------
\* SpecPoints: one sentence of the list and the key point made of it.

Strings(n) == UNION {[1..k -> Chars] : k \in 1..n}

InitPoints ==
    /\ svc \in Services
    \* the segmenters strip every sentence and drop the short ones
    /\ sent \in {q \in Strings(MaxChars) : strip(q) = q}
    /\ point = <<>>
    /\ pc = "point"
    /\ level = "detailed" /\ nSent = -1 /\ target = -1
    /\ IdleHandler /\ IdleSelect /\ IdleAux

MakePoint ==
    /\ pc = "point"
    /\ point' = (IF svc = "text" THEN complete_bullet_point(sent) ELSE key_point(sent))
    /\ pc' = "pointed"
    /\ UNCHANGED <<svc, level, textLen, textBlank, nSent, target, ran, failed,
                   resp, sentences, scores, summary, executive, points, sent,
                   aux, more>>

NextPoints == MakePoint

SpecPoints == InitPoints /\ [][NextPoints]_vars

---------------------------------------------------------------------------
\* SpecSegment: the two segmenters on explicit texts.
\* A text is its words.  Of a word the segmenters see how it starts (an
\* upper-case letter, a lower-case letter, a digit) and how it ends: "word"
\* is no sentence punctuation, "stop" is ".", "!" or "?" on a word that is
\* not in the abbreviation list of the segmenter, "abbr" is a listed
\* abbreviation with its period.  Every word has WordChars characters.

Words ==
    {w \in [first : {"upper", "lower", "digit"}, end : {"word", "stop", "abbr"}] :
        w.end = "abbr" => w.first # "digit"}

Texts(n) == UNION {[1..k -> Words] : k \in 1..n}

\* re.sub(rf'\b{abbr}\.', abbr + '<PERIOD>', ..., flags=re.IGNORECASE): the match is
\* replaced by the list's lower-case spelling followed by the mark.
protect(w) ==
    IF w.end = "abbr" THEN [first |-> "lower", end |-> "masked"] ELSE w

\* s.replace('<PERIOD>', '.')
restore(w) ==
    IF w.end = "masked" THEN [w EXCEPT !.end = "abbr"] ELSE w

\* re.split(r'(?<=[.!?])\s+(?=[A-Z])', temp): the pieces between the
\* boundaries, a boundary being white space after ".", "!" or "?" and before
\* an upper-case letter.  (split_into_sentences also accepts a quote there;
\* the words of this model do not start with one.)
re_split(temp) ==
    LET starts == {1} \cup {i + 1 : i \in {j \in 1..(Len(temp) - 1) :
                                  /\ temp[j].end = "stop"
                                  /\ temp[j + 1].first = "upper"}}
        order == SortedAsc(starts)
    IN  [p \in 1..Len(order) |->
            SubSeq(temp, order[p],
                   IF p = Len(order) THEN Len(temp) ELSE order[p + 1] - 1)]

\* len(s) of a stripped piece: its words and the blanks between them
chars(piece) == Len(piece) * WordChars + (Len(piece) - 1)

\* text_summary.split_into_sentences
split_into_sentences(text) ==
    LET temp_text == [i \in 1..Len(text) |-> protect(text[i])]
        pieces == SelectSeq(re_split(temp_text), LAMBDA piece : chars(piece) > 10)
    IN  [p \in 1..Len(pieces) |->
            [i \in 1..Len(pieces[p]) |-> restore(pieces[p][i])]]

\* document_summary.split_sentences
split_sentences(text) ==
    LET temp == [i \in 1..Len(text) |-> protect(text[i])]
        pieces == re_split(temp)
        restored == [p \in 1..Len(pieces) |->
                        [i \in 1..Len(pieces[p]) |-> restore(pieces[p][i])]]
    IN  SelectSeq(restored,
                  LAMBDA sen : /\ chars(sen) > 15 /\ Len(sen) >= 4
                               /\ sen[1].first \in {"upper", "digit"})

InitSegment ==
    /\ svc \in Services
    /\ tokens \in Texts(MaxTokens)
    /\ valid = <<>>
    /\ pc = "split"
    /\ level = "detailed" /\ nSent = -1 /\ target = -1
    /\ IdleHandler /\ IdleSelect /\ IdlePoints
    /\ IdleNormalize /\ IdleUpload /\ IdleRuns /\ IdleStats /\ IdleScore /\ IdleMore

\* sentences = split_into_sentences(clean_text) / split_sentences(clean)
SplitSentences ==
    /\ pc = "split"
    /\ valid' = (IF svc = "text" THEN split_into_sentences(tokens)
                 ELSE split_sentences(tokens))
    /\ pc' = "segmented"
    /\ UNCHANGED <<svc, level, textLen, textBlank, nSent, target, ran, failed,
                   resp, sentences, scores, summary, executive, points, sent,
                   point, tokens, raw, clean, disk, reqs, lib, left, outs, wc,
                   statistics, signals, score, more>>

NextSegment == SplitSentences

SpecSegment == InitSegment /\ [][NextSegment]_vars

---------------------------------------------------------------------------
\* SpecNormalize: the two normalizers on explicit texts.
\* A text is a string over: "w" a character of a word, " " white space, "q" a
\* quotation mark, "U" a match of http[s]?://\S (the head of a URL), "E" a
\* match of \S@\S (the heart of an e-mail address).

RawChars == {"w", " ", "q", "U", "E"}
NonSpace == RawChars \ {" "}

RawTexts(n) == UNION {[1..k -> RawChars] : k \in 1..n}

\* re.sub(r'\s+', ' ', text), re.sub(r'["]+', '"', text): a run of c becomes one c
RECURSIVE squeeze(_, _)
squeeze(t, c) ==
    IF Len(t) < 2 THEN t
    ELSE IF t[1] = c /\ t[2] = c THEN squeeze(Tail(t), c)
    ELSE <<t[1]>> \o squeeze(Tail(t), c)

\* re.sub(r'http[s]?://\S+', '', text): from the head of a URL up to the next
\* white space
RECURSIVE remove_urls(_)
remove_urls(t) ==
    IF t = <<>> THEN t
    ELSE IF t[1] = "U" THEN remove_urls(lstrip(t, NonSpace))
    ELSE <<t[1]>> \o remove_urls(Tail(t))

\* re.sub(r'\S+@\S+', '', text): \S+ is greedy on both sides, so the whole
\* run of non-space characters around the @ goes
RECURSIVE remove_emails(_)
remove_emails(t) ==
    IF t = <<>> THEN t
    ELSE IF t[1] = " " THEN <<" ">> \o remove_emails(Tail(t))
    ELSE LET rest == lstrip(t, NonSpace)
             run == SubSeq(t, 1, Len(t) - Len(rest))
         IN  (IF "E" \in Range(run) THEN <<>> ELSE run) \o remove_emails(rest)

\* text_summary.preprocess_text: white space, URLs, e-mails, strip
preprocess_text(text) ==
    strip(remove_emails(remove_urls(squeeze(text, " "))))

\* document_summary.clean_text: URLs, e-mails, white space, quotes, strip
\* (its \n{3,} substitution finds nothing once white space is single blanks)
clean_text(text) ==
    strip(squeeze(squeeze(remove_emails(remove_urls(text)), " "), "q"))

normalize(s, text) ==
    IF s = "text" THEN preprocess_text(text) ELSE clean_text(text)

InitNormalize ==
    /\ svc \in Services
    /\ raw \in RawTexts(MaxRaw)
    /\ clean = <<>>
    /\ pc = "normalize_text"
    /\ level = "detailed" /\ nSent = -1 /\ target = -1
    /\ IdleHandler /\ IdleSelect /\ IdlePoints
    /\ IdleSegment /\ IdleUpload /\ IdleRuns /\ IdleStats /\ IdleScore /\ IdleMore

\* clean_text = preprocess_text(text) / clean = clean_text(text), applied to
\* the raw text and then to its own result
NormalizeText ==
    /\ pc = "normalize_text"
    /\ clean' = Append(clean, normalize(svc, IF clean = <<>> THEN raw
                                             ELSE clean[Len(clean)]))
    /\ pc' = (IF Len(clean) = 1 THEN "normalized" ELSE pc)
    /\ UNCHANGED <<svc, level, textLen, textBlank, nSent, target, ran, failed,
                   resp, sentences, scores, summary, executive, points, sent,
                   point, tokens, valid, raw, disk, reqs, lib, left, outs, wc,
                   statistics, signals, score, more>>

NextNormalize == NormalizeText

SpecNormalize == InitNormalize /\ [][NextNormalize]_vars

---------------------------------------------------------------------------
\* SpecUpload: concurrent /api/document-summary requests and the upload
\* folder they share.  The development server started by app.run serves each
\* request on a thread of its own.

Requests == 1..MaxRequests

\* secure_filename(file.filename) of an upload
FileNames == {"a.pdf", "b.docx", "c.txt"}

\* file.filename.lower().endswith('.pdf') / endswith(('.doc', '.docx'))
Supported(name) == name \in {"a.pdf", "b.docx"}

\* No file at a path, no text read, no response yet.
Absent == [owner |-> 0, short |-> FALSE]
NoAnswer == [code |-> 0, owner |-> 0]

\* What request r uploads: its own content, too short to summarize or not.
Upload(r) == [owner |-> r, short |-> reqs[r].short]

\* The response request r gets when it is served alone.
Alone(r) ==
    IF ~Supported(reqs[r].name) \/ reqs[r].short
    THEN [code |-> 500, owner |-> 0]
    ELSE [code |-> 200, owner |-> r]

InitUpload ==
    /\ svc = "doc"
    /\ disk = [f \in FileNames |-> Absent]
    /\ reqs \in [Requests -> [name : FileNames, short : BOOLEAN, at : {"save"},
                               text : {Absent}, resp : {NoAnswer}]]
    /\ pc = "serving"
    /\ level = "detailed" /\ nSent = -1 /\ target = -1
    /\ IdleHandler /\ IdleSelect /\ IdlePoints
    /\ IdleSegment /\ IdleNormalize /\ IdleRuns /\ IdleStats /\ IdleScore /\ IdleMore

\* file.save(temp_path), temp_path = UPLOAD_FOLDER / secure_filename(file.filename)
SaveUpload(r) ==
    /\ reqs[r].at = "save"
    /\ disk' = [disk EXCEPT ![reqs[r].name] = Upload(r)]
    /\ reqs' = [reqs EXCEPT ![r].at = "extract"]
    /\ UNCHANGED <<handlerVars, tokens, valid, raw, clean, lib, left, outs, wc,
                   statistics, signals, score, more>>

\* extract_text_from_pdf(temp_path) / extract_text_from_word(temp_path), or
\* raise Exception('Unsupported format'); opening a missing file raises
ExtractText(r) ==
    /\ reqs[r].at = "extract"
    /\ IF ~Supported(reqs[r].name) \/ disk[reqs[r].name] = Absent
       THEN reqs' = [reqs EXCEPT ![r].at = "except"]
       ELSE reqs' = [reqs EXCEPT ![r].at = "remove",
                                 ![r].text = disk[reqs[r].name]]
    /\ disk' = disk
    /\ UNCHANGED <<handlerVars, tokens, valid, raw, clean, lib, left, outs, wc,
                   statistics, signals, score, more>>

\* os.remove(temp_path), which raises when the file is gone
RemoveTemp(r) ==
    /\ reqs[r].at = "remove"
    /\ IF disk[reqs[r].name] = Absent
       THEN reqs' = [reqs EXCEPT ![r].at = "except"] /\ disk' = disk
       ELSE /\ reqs' = [reqs EXCEPT ![r].at = "process"]
            /\ disk' = [disk EXCEPT ![reqs[r].name] = Absent]
    /\ UNCHANGED <<handlerVars, tokens, valid, raw, clean, lib, left, outs, wc,
                   statistics, signals, score, more>>

\* the length checks, the summary of the text read and the 200 response
Process(r) ==
    /\ reqs[r].at = "process"
    /\ IF reqs[r].text.short
       THEN reqs' = [reqs EXCEPT ![r].at = "except"]
       ELSE reqs' = [reqs EXCEPT ![r].at = "done",
                                 ![r].resp = [code |-> 200,
                                              owner |-> reqs[r].text.owner]]
    /\ disk' = disk
    /\ UNCHANGED <<handlerVars, tokens, valid, raw, clean, lib, left, outs, wc,
                   statistics, signals, score, more>>

\* except Exception: if os.path.exists(temp_path): os.remove(temp_path); 500
Cleanup(r) ==
    /\ reqs[r].at = "except"
    /\ disk' = [disk EXCEPT ![reqs[r].name] = Absent]
    /\ reqs' = [reqs EXCEPT ![r].at = "done",
                            ![r].resp = [code |-> 500, owner |-> 0]]
    /\ UNCHANGED <<handlerVars, tokens, valid, raw, clean, lib, left, outs, wc,
                   statistics, signals, score, more>>

NextUpload ==
    \/ \E r \in Requests : SaveUpload(r)
    \/ \E r \in Requests : ExtractText(r)
    \/ \E r \in Requests : RemoveTemp(r)
    \/ \E r \in Requests : Process(r)
    \/ \E r \in Requests : Cleanup(r)

SpecUpload == InitUpload /\ [][NextUpload]_vars

---------------------------------------------------------------------------
\* SpecRuns: the same request served MaxRuns times by one process.
\* What the libraries compute is a function of the input: lib holds the votes
\* of the sumy summarizers and the calls that raise for this input.  The
\* sentences have distinct texts (SpecSelect has the lists that repeat one).

\* sentence_votes of a text: no summarizer picked it, or all but one did
RunVotes == {0, NumSummarizers - 1}

RunFaults(s) ==
    IF s = "text"
    THEN {{}, {"score_main"}, {"sumy"}, {"sumy", "score_fallback"},
          {"score_exec"}, {"score_points"}}
    ELSE {{}, {"score_main"}, {"score_points"}}

MutVotesKept(prev, keys) == prev

\* sentence_votes = defaultdict(int): a new dict in every call
sentence_votes(prev, keys) == [t \in keys |-> 0]

\* for name, summarizer in summarizers.items(): sentence_votes[str(sentence)] += 1
count_votes(start, picked) == [t \in DOMAIN start |-> start[t] + picked[t]]

\* text_summary, from main_count to the response
text_request(sents, sc, lvl, L, prev) ==
    LET n == Len(sents)
        votes == count_votes(sentence_votes(prev, Range(sents)), L.votes)
        main == generate_ensemble_summary(sents, sc, main_count(lvl, n), votes,
                    "sumy" \in L.faults, "score_main" \in L.faults,
                    "score_fallback" \in L.faults)
        exec == generate_executive_summary(sents, sc, "score_exec" \in L.faults)
        bullets == generate_complete_bullet_points(sents, sc, bullet_count(n),
                       "score_points" \in L.faults)
    IN  [response |-> [summary |-> main.val, executive |-> exec.val,
                       key_points |-> bullets.val,
                       summary_sentences |-> Len(main.val)],
         votes |-> votes]

\* document_summary, from generate_professional_summary to the response
doc_request(sents, sc, lvl, L, prev) ==
    LET result == generate_professional_summary(sents, sc, lvl,
                      "score_main" \in L.faults)
        key_points == generate_key_points(sents, sc, 6, "score_points" \in L.faults)
    IN  [response |-> [summary |-> result.main, executive |-> result.executive,
                       key_points |-> key_points.val,
                       summary_sentences |-> result.selected_count],
         votes |-> prev]

InitRuns ==
    /\ svc \in Services
    /\ level \in Levels
    /\ \E n \in 3..(IF svc = "text" THEN MaxTextN ELSE MaxDocN) :
          /\ nSent = n
          /\ sentences = Idx(n)
          /\ scores \in [1..n -> 0..ScoreScale]
          /\ lib \in [votes : IF svc = "text" THEN [1..n -> RunVotes]
                                ELSE {[t \in 1..n |-> 0]},
                       faults : RunFaults(svc)]
          /\ left = [t \in 1..n |-> 0]
    /\ outs = <<>>
    /\ pc = "serve"
    /\ target = -1
    /\ summary = <<>> /\ executive = <<>> /\ points = <<>>
    /\ IdleHandler /\ IdlePoints
    /\ IdleSegment /\ IdleNormalize /\ IdleUpload /\ IdleStats /\ IdleScore /\ IdleMore

\* One request from the summary steps to the response; the process keeps
\* nothing of it but what left holds.
ServeRequest ==
    /\ pc = "serve"
    /\ Len(outs) < MaxRuns
    /\ LET r == IF svc = "text"
                THEN text_request(sentences, scores, level, lib, left)
                ELSE doc_request(sentences, scores, level, lib, left)
       IN  /\ outs' = Append(outs, r.response)
           /\ left' = r.votes
    /\ UNCHANGED <<handlerVars, tokens, valid, raw, clean, disk, reqs, lib, wc,
                   statistics, signals, score, more>>

NextRuns == ServeRequest

SpecRuns == InitRuns /\ [][NextRuns]_vars

---------------------------------------------------------------------------
\* SpecStats: the statistics block, on sentences of given word counts.
\* wc.words[i] is len(sentences[i].split()); wc.rest counts the words of the
\* text that are in no valid sentence (the pieces the segmenter dropped).

WordsPerMinute == 200
MinDocWords == 4

\* A valid sentence is as short as the segmenter allows, or long.
SentenceWords(s) == {IF s = "text" THEN 1 ELSE MinDocWords, LongSentence}

RECURSIVE SumWords(_, _)
\* len(' '.join(sentences[i] for i in sel).split())
SumWords(sel, words) ==
    IF sel = <<>> THEN 0 ELSE words[Head(sel)] + SumWords(Tail(sel), words)

\* word_count = len(clean_text.split())
word_count(w) == SumWords(Idx(Len(w.words)), w.words) + w.rest

MutSummaryWordsAll(sel, w) == SumWords(Idx(Len(w.words)), w.words)

\* summary_words = len(main_summary.split())
summary_words(sel, w) == SumWords(sel, w.words)

\* round(a / b) of Python 3 for a >= 0, b > 0: to nearest, ties to even
round(a, b) ==
    LET q == a \div b
        r == a % b
    IN  IF 2 * r < b THEN q
        ELSE IF 2 * r > b THEN q + 1
        ELSE IF q % 2 = 0 THEN q ELSE q + 1

\* round((1 - summary_words / word_count) * 100, 1), in tenths of a percent
compression_ratio(sw, w) == round(1000 * (w - sw), w)

\* max(1, round(words / 200))
reading_time(words) == Max(1, round(words, WordsPerMinute))

InitStats ==
    /\ svc \in Services
    /\ level \in Levels
    /\ \E n \in 3..(IF svc = "text" THEN MaxTextN ELSE MaxDocN) :
          /\ nSent = n
          /\ sentences = Idx(n)
          \* a sentence scores lowest or highest
          /\ scores \in [1..n -> {0, ScoreScale}]
          /\ wc \in [words : [1..n -> SentenceWords(svc)], rest : 0..MaxRest]
    /\ statistics = <<>>
    /\ target = (IF svc = "text" THEN main_count(level, nSent) ELSE -1)
    /\ pc = "summarize"
    /\ summary = <<>> /\ executive = <<>> /\ points = <<>>
    /\ IdleHandler /\ IdlePoints
    /\ IdleSegment /\ IdleNormalize /\ IdleUpload /\ IdleRuns /\ IdleScore /\ IdleMore

\* "Calculate statistics" / "Statistics", on the main summary
Statistics ==
    /\ pc \in {"executive", "topics"}
    /\ wc # <<>>
    /\ LET w == word_count(wc)
           sw == summary_words(summary, wc)
       IN  statistics' = [word_count |-> w,
                          summary_word_count |-> sw,
                          compression_ratio |-> compression_ratio(sw, w),
                          reading_time_minutes |-> reading_time(w),
                          summary_reading_time_minutes |-> reading_time(sw)]
    /\ pc' = "stats"
    /\ UNCHANGED <<svc, level, textLen, textBlank, nSent, target, ran, failed,
                   resp, sentences, scores, summary, executive, points, sent,
                   point, tokens, valid, raw, clean, disk, reqs, lib, left,
                   outs, wc, signals, score, more>>

NextStats ==
    \/ EnsembleSummary
    \/ ProfessionalSummary
    \/ Statistics

SpecStats == InitStats /\ [][NextStats]_vars

---------------------------------------------------------------------------
\* SpecScore: the composite score of one sentence.
\* A signal is an integer in hundredths (100 is 1.0), a weight too, so a
\* composite score is in ten-thousandths (Unit * Unit is 1.0).  What the
\* regular expressions and TF-IDF measure on the sentence is the input.

Unit == 100

\* The weights of calculate_sentence_importance for the first signal, taken
\* into the twelve of calculate_advanced_scores.
MutWeightsTfidfOfImportance ==
    [tfidf |-> 30, centroid |-> 18, position |-> 14, length |-> 12,
     keyword |-> 10, numeric |-> 5, entity |-> 5, qa |-> 4, proper_noun |-> 3,
     completeness |-> 3, tech |-> 2, coherence |-> 2]

\* The weights of the two linear combinations.
advanced_weights ==
    [tfidf |-> 22, centroid |-> 18, position |-> 14, length |-> 12,
     keyword |-> 10, numeric |-> 5, entity |-> 5, qa |-> 4, proper_noun |-> 3,
     completeness |-> 3, tech |-> 2, coherence |-> 2]
importance_weights ==
    [tfidf |-> 30, centroid |-> 25, position |-> 20, length |-> 15, keyword |-> 10]

\* calculate_advanced_scores: idx < total * 0.10 / idx < total * 0.25 /
\* idx > total * 0.85, idx counted from 0
position_score(idx, total) ==
    IF 10 * idx < total THEN 60
    ELSE IF 4 * idx < total THEN 30
    ELSE IF 20 * idx > 17 * total THEN 40
    ELSE 0

\* calculate_sentence_importance: rel_pos < 0.1 / rel_pos > 0.9
pos_score(idx, total) ==
    IF 10 * idx < total THEN 100
    ELSE IF 10 * idx > 9 * total THEN 85
    ELSE 40

\* calculate_advanced_scores: length_score of word_count
length_score(words) ==
    IF words >= 15 /\ words <= 30 THEN 100
    ELSE IF (words >= 10 /\ words < 15) \/ (words > 30 /\ words <= 40) THEN 80
    ELSE 40

\* calculate_sentence_importance: len_score of len(words)
len_score(words) ==
    IF words >= 15 /\ words <= 30 THEN 100
    ELSE IF (words >= 10 /\ words < 15) \/ (words > 30 /\ words <= 35) THEN 70
    ELSE 30

\* The signals that enter the weighted sum of calculate_advanced_scores.
advanced_signals(m) ==
    [tfidf |-> m.row_sum,
     centroid |-> m.sim,
     position |-> position_score(m.idx, m.total),
     length |-> length_score(m.words),
     keyword |-> Min(m.keyword_sum, 60),
     numeric |-> IF m.digits THEN 20 ELSE 0,
     entity |-> Min(m.entities * 3, 25),
     qa |-> IF m.ending = "question" THEN 20
            ELSE IF m.ending = "answer" THEN 25 ELSE 0,
     proper_noun |-> Min(m.acronyms * 6, 20),
     completeness |-> IF m.ending = "fragment" THEN 0 ELSE 15,
     tech |-> Min(m.tech_terms * 3, 20),
     coherence |-> IF m.idx > 0 THEN Min(m.overlap * 2, 15) ELSE 0]

\* The signals that enter the sum of calculate_sentence_importance.
importance_signals(m) ==
    [tfidf |-> Min(m.row_sum \div 10, Unit),
     centroid |-> m.sim,
     position |-> pos_score(m.idx, m.total),
     length |-> len_score(m.words),
     keyword |-> Min(m.keyword_sum, Unit)]

\* score = sum of signal * weight
weighted_sum(sig, weights) ==
    LET RECURSIVE Sum(_)
        Sum(S) == IF S = {} THEN 0
                  ELSE LET k == CHOOSE k \in S : TRUE
                       IN  sig[k] * weights[k] + Sum(S \ {k})
    IN  Sum(DOMAIN weights)

\* What is measured on sentence idx of total: the sum of its TF-IDF row, its
\* similarity to the centroid, its words, the summed weights of the cue words
\* found, and the matches of the other patterns.  A row of k terms sums to at
\* most sqrt(k) and a pattern matches at most once per word, so the large
\* values go with the long sentences.
Measurements(s) ==
    LET all ==
          UNION {[row_sum : {0, Unit, MaxRowSum},
                  sim : {0, Unit},
                  idx : 0..(t - 1),
                  total : {t},
                  words : {5, 12, 20, ManyMatches + 10},
                  keyword_sum : IF s = "text" THEN {0, 70, 645} ELSE {0, 20, 120},
                  digits : IF s = "text" THEN BOOLEAN ELSE {FALSE},
                  entities : IF s = "text" THEN {0, ManyMatches} ELSE {0},
                  ending : IF s = "text"
                           THEN {"statement", "question", "answer", "fragment"}
                           ELSE {"statement"},
                  acronyms : IF s = "text" THEN {0, ManyMatches} ELSE {0},
                  tech_terms : IF s = "text" THEN {0, 8} ELSE {0},
                  overlap : IF s = "text" THEN {0, ManyMatches} ELSE {0}]
                 : t \in 3..MaxPosTotal}
    IN  {m \in all :
            /\ m.row_sum > Unit => m.words >= 20
            /\ m.keyword_sum > Unit => m.words >= 12
            /\ m.entities + m.acronyms <= m.words
            /\ m.overlap <= m.words}

InitScore ==
    /\ svc \in Services
    /\ signals \in Measurements(svc)
    /\ score = <<>>
    /\ pc = "score"
    /\ level = "detailed" /\ nSent = -1 /\ target = -1
    /\ IdleHandler /\ IdleSelect /\ IdlePoints
    /\ IdleSegment /\ IdleNormalize /\ IdleUpload /\ IdleRuns /\ IdleStats /\ IdleMore

\* the body of the scoring loop for one sentence
ScoreSentence ==
    /\ pc = "score"
    /\ LET sig == IF svc = "text" THEN advanced_signals(signals)
                  ELSE importance_signals(signals)
           weights == IF svc = "text" THEN advanced_weights ELSE importance_weights
       IN  score' = [signals |-> sig, composite |-> weighted_sum(sig, weights)]
    /\ pc' = "scored"
    /\ UNCHANGED <<svc, level, textLen, textBlank, nSent, target, ran, failed,
                   resp, sentences, scores, summary, executive, points, sent,
                   point, tokens, valid, raw, clean, disk, reqs, lib, left,
                   outs, wc, statistics, signals, more>>

NextScore == ScoreSentence

SpecScore == InitScore /\ [][NextScore]_vars

---------------------------------------------------------------------------
\* SpecParagraphs: the paragraphs of the document summary.
\* A string is the sequence of its parts: a sentence is its index (from 1),
\* a joining space is Space and the "\n\n" between paragraphs is Break.
\* A sentence is cut from the cleaned text, where every run of white space is
\* one space, so no sentence holds a Break.

para_size == 4
Space == 0
Break == -1

RECURSIVE MutRangeWholeSteps(_, _, _)
MutRangeWholeSteps(start, stop, step) ==
    IF start + step > stop THEN <<>>
    ELSE <<start>> \o MutRangeWholeSteps(start + step, stop, step)

\* range(start, stop, step), step > 0
RECURSIVE range(_, _, _)
range(start, stop, step) ==
    IF start >= stop THEN <<>>
    ELSE <<start>> \o range(start + step, stop, step)

\* q[a:b], 0 <= a <= b
slice(q, a, b) == SubSeq(q, a + 1, Min(b, Len(q)))

\* sep.join(parts), each part a string
RECURSIVE join(_, _)
join(parts, sep) ==
    IF parts = <<>> THEN <<>>
    ELSE IF Len(parts) = 1 THEN parts[1]
    ELSE parts[1] \o <<sep>> \o join(Tail(parts), sep)

\* s.count(sub) for a part sub
count(str, sub) == Cardinality({i \in 1..Len(str) : str[i] = sub})

\* the sentences as strings
strings(idxs) == [i \in 1..Len(idxs) |-> <<idxs[i]>>]

\* for i in range(0, len(selected), para_size):
\*     paragraphs.append(' '.join(selected[i:i + para_size]))
organize(selected) ==
    LET starts == range(0, Len(selected), para_size)
    IN  [k \in 1..Len(starts) |->
            join(strings(slice(selected, starts[k], starts[k] + para_size)),
                 Space)]

\* generate_professional_summary, with the text of the main summary
professional_summary(sents, sc, lvl, fault) ==
    LET r == generate_professional_summary(sents, sc, lvl, fault)
        raised == calculate_sentence_importance(Len(sents), sc, fault).raised
        paras == IF raised THEN <<>> ELSE organize(r.main)
    IN  [paragraphs |-> paras,
         selected |-> r.main,
         main_summary |-> IF raised THEN join(strings(r.main), Space)
                          ELSE join(paras, Break),
         selected_count |-> r.selected_count]

InitParagraphs ==
    /\ svc = "doc"
    /\ level \in Levels
    /\ \E n \in 3..MaxParaN :
          /\ nSent = n
          /\ sentences = Idx(n)
          \* a sentence scores lowest or highest
          /\ scores \in [1..n -> {0, ScoreScale}]
    /\ pc = "summarize"
    /\ target = -1
    /\ summary = <<>> /\ executive = <<>> /\ points = <<>>
    /\ IdleHandler /\ IdlePoints /\ IdleParagraphs /\ IdleWhisper
    /\ IdleTranscribe /\ IdleLauncher /\ IdlePlagiarism
    /\ IdleSegment /\ IdleNormalize /\ IdleUpload /\ IdleRuns /\ IdleStats
    /\ IdleScore

\* result = generate_professional_summary(sentences, clean, level), and
\* 'paragraph_count': main_summary.count('\n\n') + 1
SummarizeDocument ==
    /\ pc = "summarize" /\ svc = "doc"
    /\ \E fault \in BOOLEAN :
          LET r == professional_summary(sentences, scores, level, fault)
          IN  /\ paragraphs' = r.paragraphs
              /\ summary' = r.selected
              /\ summary_result' = [main_summary |-> r.main_summary,
                                    selected_count |-> r.selected_count]
              /\ paragraph_count' = count(r.main_summary, Break) + 1
              /\ failed' = failed \cup (IF fault THEN {"score_main"} ELSE {})
    /\ target' = doc_target(level, nSent)
    /\ pc' = "organized"
    /\ UNCHANGED <<svc, level, textLen, textBlank, nSent, ran, resp, sentences,
                   scores, executive, points, sent, point, aux, whisperVars,
                   transVars, launchVars, plagVars>>

NextParagraphs == SummarizeDocument

SpecParagraphs == InitParagraphs /\ [][NextParagraphs]_vars

---------------------------------------------------------------------------
\* SpecWhisper: the cached Whisper model of voice_to_text.
\* The server handles each request in a thread of its own; a call of
\* transcribe_whisper_fast is a thread of `request`, the thread it starts
\* with preload_whisper_model is the entry of `loader` with the same number.
\* A "with _whisper_lock:" block only reads and writes the two globals, so it
\* is one step; loading a model is outside every such block and is a step of
\* its own, during which the other threads run.

Calls == 1..MaxCalls

\* transcribe_whisper_fast after reading the globals: where the call goes
next_after_read(model, loading) ==
    IF model # "None" THEN "transcribe"
    ELSE IF loading THEN "return" ELSE "preload"

\* preload_whisper_model: if _whisper_model is not None or _whisper_loading: return
MutPreloadSkipsIgnoringFlag(model, loading) == model # "None"

preload_skips(model, loading) == model # "None" \/ loading

\* A load is running in thread l: whisper.load_model has been reached and
\* has not returned or raised.
Loading(l) == loader[l].pc \in {"load_medium", "load_base"}

\* A load attempt is under way for call l: from the mark set by
\* preload_whisper_model to the end of the thread it starts.
Attempt(l) ==
    \/ request[l].pc = "start_thread"
    \/ loader[l].pc \notin {"unborn", "ended"}

InitWhisper ==
    /\ whisper_model = "None"
    /\ whisper_loading = FALSE
    /\ request = [r \in Calls |->
                    [pc |-> "call", model |-> "None", loading |-> FALSE,
                     result |-> "unset"]]
    /\ loader = [r \in Calls |-> [pc |-> "unborn", model |-> "None"]]
    /\ svc = "text" /\ level = "detailed" /\ pc = "whisper"
    /\ nSent = -1 /\ target = -1
    /\ IdleHandler /\ IdleSelect /\ IdlePoints /\ IdleParagraphs
    /\ IdleTranscribe /\ IdleLauncher /\ IdlePlagiarism
    /\ IdleSegment /\ IdleNormalize /\ IdleUpload /\ IdleRuns /\ IdleStats
    /\ IdleScore

\* with _whisper_lock: model = _whisper_model; loading = _whisper_loading
ReadGlobals(r) ==
    /\ request[r].pc = "call"
    /\ request' = [request EXCEPT ![r] =
          [@ EXCEPT !.model = whisper_model, !.loading = whisper_loading,
                    !.pc = next_after_read(whisper_model, whisper_loading),
                    !.result = IF next_after_read(whisper_model,
                                                  whisper_loading) = "return"
                               THEN "None" ELSE @]]
    /\ UNCHANGED <<handlerVars, aux, paraVars, transVars, launchVars, plagVars, whisper_model, whisper_loading,
                   loader>>

\* preload_whisper_model, the block under the lock
PreloadMark(r) ==
    /\ request[r].pc = "preload"
    /\ IF preload_skips(whisper_model, whisper_loading)
       THEN /\ whisper_loading' = whisper_loading
            /\ request' = [request EXCEPT ![r].pc = "return",
                                          ![r].result = "None"]
       ELSE /\ whisper_loading' = TRUE
            /\ request' = [request EXCEPT ![r].pc = "start_thread"]
    /\ UNCHANGED <<handlerVars, aux, paraVars, transVars, launchVars, plagVars, whisper_model, loader>>

\* t = threading.Thread(target=_load, daemon=True); t.start(); return None
StartThread(r) ==
    /\ request[r].pc = "start_thread"
    /\ loader' = [loader EXCEPT ![r].pc = "get"]
    /\ request' = [request EXCEPT ![r].pc = "return", ![r].result = "None"]
    /\ UNCHANGED <<handlerVars, aux, paraVars, transVars, launchVars, plagVars, whisper_model, whisper_loading>>

\* result = model.transcribe(...), which returns or raises
Transcribe(r) ==
    /\ request[r].pc = "transcribe"
    /\ \E ok \in BOOLEAN :
          request' = [request EXCEPT ![r].pc = "return",
                         ![r].result = IF ok THEN "whisper" ELSE "None"]
    /\ UNCHANGED <<handlerVars, aux, paraVars, transVars, launchVars, plagVars, whisper_model, whisper_loading,
                   loader>>

\* get_whisper_model, the fast path: the block under the lock
GetModel(l) ==
    /\ loader[l].pc = "get"
    /\ IF whisper_model # "None"
       THEN /\ loader' = [loader EXCEPT ![l].pc = "reset"]
            /\ whisper_loading' = whisper_loading
       ELSE /\ loader' = [loader EXCEPT ![l].pc = "load_medium"]
            /\ whisper_loading' = TRUE
    /\ UNCHANGED <<handlerVars, aux, paraVars, transVars, launchVars, plagVars, whisper_model, request>>

\* model = whisper.load_model("medium.en", device=device), or an exception
LoadMedium(l) ==
    /\ loader[l].pc = "load_medium"
    /\ \E ok \in BOOLEAN :
          loader' = [loader EXCEPT ![l] =
                        IF ok THEN [pc |-> "store", model |-> "medium"]
                        ELSE [pc |-> "load_base", model |-> "None"]]
    /\ UNCHANGED <<handlerVars, aux, paraVars, transVars, launchVars, plagVars, whisper_model, whisper_loading,
                   request>>

\* model = whisper.load_model("base.en"), or an exception: return None
LoadBase(l) ==
    /\ loader[l].pc = "load_base"
    /\ \E ok \in BOOLEAN :
          loader' = [loader EXCEPT ![l] =
                        IF ok THEN [pc |-> "store", model |-> "base"]
                        ELSE [pc |-> "finally", model |-> "None"]]
    /\ UNCHANGED <<handlerVars, aux, paraVars, transVars, launchVars, plagVars, whisper_model, whisper_loading,
                   request>>

\* with _whisper_lock: _whisper_model = model
StoreModel(l) ==
    /\ loader[l].pc = "store"
    /\ whisper_model' = loader[l].model
    /\ loader' = [loader EXCEPT ![l].pc = "finally"]
    /\ UNCHANGED <<handlerVars, aux, paraVars, transVars, launchVars, plagVars, whisper_loading, request>>

\* get_whisper_model, finally: with _whisper_lock: _whisper_loading = False
Finally(l) ==
    /\ loader[l].pc = "finally"
    /\ whisper_loading' = FALSE
    /\ loader' = [loader EXCEPT ![l].pc = "reset"]
    /\ UNCHANGED <<handlerVars, aux, paraVars, transVars, launchVars, plagVars, whisper_model, request>>

MutResetSetsFlag(l) ==
    /\ loader[l].pc = "reset"
    /\ whisper_loading' = TRUE
    /\ loader' = [loader EXCEPT ![l].pc = "ended"]
    /\ UNCHANGED <<handlerVars, aux, paraVars, transVars, launchVars, plagVars, whisper_model, request>>

\* _load, finally: with _whisper_lock: _whisper_loading = False
Reset(l) ==
    /\ loader[l].pc = "reset"
    /\ whisper_loading' = FALSE
    /\ loader' = [loader EXCEPT ![l].pc = "ended"]
    /\ UNCHANGED <<handlerVars, aux, paraVars, transVars, launchVars, plagVars, whisper_model, request>>

LoaderStep(l) ==
    \/ GetModel(l) \/ LoadMedium(l) \/ LoadBase(l)
    \/ StoreModel(l) \/ Finally(l) \/ Reset(l)

NextWhisper ==
    \/ \E r \in Calls : ReadGlobals(r)
    \/ \E r \in Calls : PreloadMark(r)
    \/ \E r \in Calls : StartThread(r)
    \/ \E r \in Calls : Transcribe(r)
    \/ \E l \in Calls : GetModel(l)
    \/ \E l \in Calls : LoadMedium(l)
    \/ \E l \in Calls : LoadBase(l)
    \/ \E l \in Calls : StoreModel(l)
    \/ \E l \in Calls : Finally(l)
    \/ \E l \in Calls : Reset(l)

SpecWhisper == InitWhisper /\ [][NextWhisper]_vars

\* A started thread runs on, and a call of t.start() returns.
FairWhisper ==
    /\ \A l \in Calls : WF_vars(LoaderStep(l))
    /\ \A r \in Calls : WF_vars(StartThread(r))

SpecWhisperFair == SpecWhisper /\ FairWhisper

---------------------------------------------------------------------------
\* SpecTranscribe: smart_transcribe of voice_to_text.
\* A result is the engine and the confidence, in hundredths; NoResult is the
\* None an engine returns when it fails.  What each engine call would give
\* for the audio is the input: the first and the second call of Google and
\* the call of Whisper.

ShortAudio == 30
HighConfidence == 80

NoResult == [engine |-> "None", confidence |-> -1]

Confidences == {0, HighConfidence - 1, HighConfidence, 99}

Outcomes(engine) ==
    {NoResult} \cup [engine : {engine}, confidence : Confidences]

MutConfidentAbove(google) ==
    google # NoResult /\ google.confidence > HighConfidence

\* if google and google['confidence'] >= 0.80
confident(google) ==
    google # NoResult /\ google.confidence >= HighConfidence

\* results.append(r) if r
append_if(results, r) == IF r # NoResult THEN Append(results, r) ELSE results

\* results.sort(key=lambda x: x['confidence'], reverse=True); results[0]
highest(results) ==
    LET order == SortedDesc(Idx(Len(results)),
                            [i \in 1..Len(results) |-> results[i].confidence])
    IN  results[order[1]]

\* smart_transcribe(wav_path, duration_seconds): the engines called, in
\* order, with what they gave, and the value returned
smart_transcribe(duration_seconds, google_first, whisper, google_last) ==
    LET short == duration_seconds < ShortAudio
    IN  IF short /\ confident(google_first)
        THEN [calls |-> <<google_first>>, tried |-> <<"google">>,
              returned |-> google_first]
        ELSE
          LET r1 == IF short THEN append_if(<<>>, google_first) ELSE <<>>
              c1 == IF short THEN <<google_first>> ELSE <<>>
              t1 == IF short THEN <<"google">> ELSE <<>>
              r2 == append_if(r1, whisper)
              last == r2 = <<>> /\ duration_seconds >= ShortAudio
              r3 == IF last THEN append_if(r2, google_last) ELSE r2
          IN  [calls |-> c1 \o <<whisper>>
                         \o (IF last THEN <<google_last>> ELSE <<>>),
               tried |-> t1 \o <<"whisper">>
                         \o (IF last THEN <<"google">> ELSE <<>>),
               returned |-> IF r3 = <<>> THEN NoResult ELSE highest(r3)]

InitTranscribe ==
    /\ audio \in [duration : (ShortAudio - 2)..MaxSeconds,
                  google_first : Outcomes("google"),
                  whisper : Outcomes("whisper"),
                  google_last : Outcomes("google")]
    /\ transcript = <<>>
    /\ svc = "text" /\ level = "detailed" /\ pc = "transcribe"
    /\ nSent = -1 /\ target = -1
    /\ IdleHandler /\ IdleSelect /\ IdlePoints /\ IdleParagraphs
    /\ IdleWhisper /\ IdleLauncher /\ IdlePlagiarism
    /\ IdleSegment /\ IdleNormalize /\ IdleUpload /\ IdleRuns /\ IdleStats
    /\ IdleScore

\* result = smart_transcribe(wav_path, duration)
SmartTranscribe ==
    /\ pc = "transcribe"
    /\ transcript' = smart_transcribe(audio.duration, audio.google_first,
                                      audio.whisper, audio.google_last)
    /\ pc' = "transcribed"
    /\ UNCHANGED <<svc, level, textLen, textBlank, nSent, target, ran, failed,
                   resp, sentences, scores, summary, executive, points, sent,
                   point, aux, paraVars, whisperVars, launchVars, plagVars,
                   audio>>

NextTranscribe == SmartTranscribe

SpecTranscribe == InitTranscribe /\ [][NextTranscribe]_vars

---------------------------------------------------------------------------
\* SpecLauncher: main of run_all_services, after the service files were
\* found.  A service process is "unstarted", "running", "exited" (it stopped
\* by itself), "signalled" (terminate() was called on it while it ran),
\* "terminated" or "killed".  KeyboardInterrupt is raised at the point where
\* main stands when Ctrl+C is pressed.

SERVICES == 1..MaxServices

\* The statements of main inside "try: ... except KeyboardInterrupt:".
InsideTry == {"monitor"}

\* where main continues when KeyboardInterrupt is raised at `at`
on_ctrl_c(at) == IF at \in InsideTry THEN "terminate" ELSE "exited"

InitLauncher ==
    /\ launcher = [pc |-> "start", i |-> 1, processes |-> <<>>,
                   pressed |-> FALSE, seen |-> {}]
    /\ proc = [p \in SERVICES |-> "unstarted"]
    /\ svc = "text" /\ level = "detailed" /\ pc = "launcher"
    /\ nSent = -1 /\ target = -1
    /\ IdleHandler /\ IdleSelect /\ IdlePoints /\ IdleParagraphs
    /\ IdleWhisper /\ IdleTranscribe /\ IdlePlagiarism
    /\ IdleSegment /\ IdleNormalize /\ IdleUpload /\ IdleRuns /\ IdleStats
    /\ IdleScore

\* after service i of the start loop: the next one, or the endpoint list
after_service(i) == IF i < MaxServices THEN "start" ELSE "display"

\* process = start_service(service, script_dir): Popen returns or raises
StartService ==
    /\ launcher.pc = "start"
    /\ \E ok \in BOOLEAN :
          IF ok
          THEN /\ proc' = [proc EXCEPT ![launcher.i] = "running"]
               /\ launcher' = [launcher EXCEPT !.pc = "append"]
          ELSE /\ proc' = proc
               /\ launcher' = [launcher EXCEPT
                                  !.pc = after_service(launcher.i),
                                  !.i = @ + 1]
    /\ UNCHANGED <<handlerVars, aux, paraVars, whisperVars, transVars, plagVars>>

\* processes.append({...}); time.sleep(1)
AppendProcess ==
    /\ launcher.pc = "append"
    /\ launcher' = [launcher EXCEPT
                       !.processes = Append(@, launcher.i),
                       !.pc = after_service(launcher.i),
                       !.i = @ + 1]
    /\ UNCHANGED <<handlerVars, aux, paraVars, whisperVars, transVars, plagVars, proc>>

\* the endpoint list and "Press Ctrl+C to stop all services"
Display ==
    /\ launcher.pc = "display"
    /\ launcher' = [launcher EXCEPT !.pc = "monitor"]
    /\ UNCHANGED <<handlerVars, aux, paraVars, whisperVars, transVars, plagVars, proc>>

\* while True: time.sleep(1); report the processes whose poll() is not None
Monitor ==
    /\ launcher.pc = "monitor"
    /\ LET stopped == {p \in Range(launcher.processes) : proc[p] # "running"}
       IN  /\ stopped # launcher.seen
           /\ launcher' = [launcher EXCEPT !.seen = stopped]
    /\ UNCHANGED <<handlerVars, aux, paraVars, whisperVars, transVars, plagVars, proc>>

\* the user presses Ctrl+C, once
CtrlC ==
    /\ ~launcher.pressed
    /\ launcher.pc # "exited"
    /\ launcher' = [launcher EXCEPT !.pressed = TRUE,
                                    !.pc = on_ctrl_c(launcher.pc),
                                    !.i = 1]
    /\ UNCHANGED <<handlerVars, aux, paraVars, whisperVars, transVars, plagVars, proc>>

\* for item in processes: item['process'].terminate(), and after the last
\* one "All services stopped successfully!" and the end of main
Terminate ==
    /\ launcher.pc = "terminate"
    /\ IF launcher.i > Len(launcher.processes)
       THEN /\ launcher' = [launcher EXCEPT !.pc = "exited"]
            /\ proc' = proc
       ELSE LET p == launcher.processes[launcher.i]
            IN  /\ proc' = [proc EXCEPT ![p] =
                               IF @ = "running" THEN "signalled" ELSE @]
                /\ launcher' = [launcher EXCEPT !.pc = "wait"]
    /\ UNCHANGED <<handlerVars, aux, paraVars, whisperVars, transVars, plagVars>>

\* item['process'].wait(timeout=5), and on TimeoutExpired: kill()
Wait ==
    /\ launcher.pc = "wait"
    /\ LET p == launcher.processes[launcher.i]
       IN  \E in_time \in BOOLEAN :
              proc' = [proc EXCEPT ![p] =
                          IF @ = "signalled"
                          THEN (IF in_time THEN "terminated" ELSE "killed")
                          ELSE @]
    /\ launcher' = [launcher EXCEPT !.pc = "terminate", !.i = @ + 1]
    /\ UNCHANGED <<handlerVars, aux, paraVars, whisperVars, transVars, plagVars>>

\* a service stops by itself
ServiceExits(p) ==
    /\ proc[p] = "running"
    /\ proc' = [proc EXCEPT ![p] = "exited"]
    /\ UNCHANGED <<handlerVars, aux, paraVars, whisperVars, transVars, plagVars, launcher>>

NextLauncher ==
    \/ StartService
    \/ AppendProcess
    \/ Display
    \/ Monitor
    \/ CtrlC
    \/ Terminate
    \/ Wait
    \/ \E p \in SERVICES : ServiceExits(p)

SpecLauncher == InitLauncher /\ [][NextLauncher]_vars

---------------------------------------------------------------------------
\* SpecPlagiarism: the sentence analysis of plagiarism_checker.
\* Of an input sentence the model keeps its length and what is measured
\* against the corpus: the greatest TF-IDF cosine, and for the closest corpus
\* entry the Jaccard index of the word sets, the word order score and the
\* bigram overlap, each in hundredths.  A similarity is in hundred-thousandths
\* (One is 1.0), the percentage in tenths.

One == 100000

\* calculate_semantic_similarity: 0.0 without a common word, else
\* jaccard * 0.4 + order_score * 0.3 + ngram_sim * 0.3, here in thousandths
calculate_semantic_similarity(m) ==
    IF m.jaccard = 0 THEN 0
    ELSE m.jaccard * 4 + m.order_score * 3 + m.ngram_sim * 3

\* max(max_tfidf_sim * 0.65 + max_semantic_sim * 0.35, max_semantic_sim * 1.1)
sentence_score(max_tfidf_sim, max_semantic_sim) ==
    Max(max_tfidf_sim * 650 + max_semantic_sim * 35, max_semantic_sim * 110)

\* the thresholds 0.70 / 0.50 / 0.35
severity(sim) ==
    IF sim > 70000 THEN "high"
    ELSE IF sim > 50000 THEN "medium"
    ELSE IF sim > 35000 THEN "low"
    ELSE "original"

\* min(s['similarity'] * 1.2, 1.0)
weight(similarity) == Min((similarity * 6) \div 5, One)

\* one turn of "for idx, sentence in enumerate(input_sentences)"
analyse(m) ==
    LET sim == sentence_score(m.max_tfidf_sim,
                              calculate_semantic_similarity(m))
    IN  [text |-> m.len, similarity |-> sim, severity |-> severity(sim)]

\* total_chars = sum(len(s['text']) for s in sentence_results)
RECURSIVE total_chars(_)
total_chars(q) ==
    IF q = <<>> THEN 0 ELSE Head(q).text + total_chars(Tail(q))

\* sum(len(s['text']) * min(s['similarity'] * 1.2, 1.0)
\*     for s in sentence_results if s['severity'] != 'original')
RECURSIVE plagiarized_chars(_)
plagiarized_chars(q) ==
    IF q = <<>> THEN 0
    ELSE (IF Head(q).severity # "original"
          THEN Head(q).text * weight(Head(q).similarity) ELSE 0)
         + plagiarized_chars(Tail(q))

\* plagiarism_percentage = min(round(plagiarized_chars / total_chars * 100, 1), 100)
plagiarism_percentage(sentence_results) ==
    IF total_chars(sentence_results) > 0
    THEN Min(round(plagiarized_chars(sentence_results),
                   total_chars(sentence_results) * (One \div 1000)), 1000)
    ELSE 0

\* What can be measured on a sentence of more than 15 characters: equal
\* bigram sets go with equal word sets, no common word with no common bigram.
Sentences ==
    {m \in [len : {16, 32},
            max_tfidf_sim : {0, 100},
            jaccard : {0, 50, 100},
            order_score : {50, 100},
            ngram_sim : {0, 100}] :
        /\ m.ngram_sim = 100 => m.jaccard = 100
        /\ m.jaccard = 0 => (m.ngram_sim = 0 /\ m.order_score = 50)}

InitPlagiarism ==
    /\ \E n \in 2..MaxInput : input_sentences \in [1..n -> Sentences]
    /\ response_data = <<>>
    /\ svc = "text" /\ level = "detailed" /\ pc = "analyse"
    /\ nSent = -1 /\ target = -1
    /\ IdleHandler /\ IdleSelect /\ IdlePoints /\ IdleParagraphs
    /\ IdleWhisper /\ IdleTranscribe /\ IdleLauncher
    /\ IdleSegment /\ IdleNormalize /\ IdleUpload /\ IdleRuns /\ IdleStats
    /\ IdleScore

\* the sentence loop, the percentage and response_data
Analyse ==
    /\ pc = "analyse"
    /\ LET sentence_results ==
               [i \in 1..Len(input_sentences) |-> analyse(input_sentences[i])]
           flagged_sentences ==
               SelectSeq(sentence_results, LAMBDA s : s.severity # "original")
       IN  response_data' =
               [percentage |-> plagiarism_percentage(sentence_results),
                sentenceAnalysis |-> sentence_results,
                flaggedCount |-> Len(flagged_sentences),
                totalSentences |-> Len(input_sentences)]
    /\ pc' = "analysed"
    /\ UNCHANGED <<svc, level, textLen, textBlank, nSent, target, ran, failed,
                   resp, sentences, scores, summary, executive, points, sent,
                   point, aux, paraVars, whisperVars, transVars, launchVars,
                   input_sentences>>

NextPlagiarism == Analyse

SpecPlagiarism == InitPlagiarism /\ [][NextPlagiarism]_vars

---------------------------------------------------------------------------
\* Claims on the target count (SpecCount).

\* The [min, max] band the specification gives each level.
ClaimedBand(s, lvl) ==
    IF s = "text"
    THEN (IF lvl = "brief" THEN 3..6
          ELSE IF lvl = "comprehensive" THEN 10..20 ELSE 5..12)
    ELSE (IF lvl = "brief" THEN 4..8
          ELSE IF lvl = "comprehensive" THEN 12..25 ELSE 6..15)

\* C3: for every sentence count and level the computed target count lies in
\* the band of that level, and a level value that is none of the three names
\* gets the target count of "detailed".
C3_TargetInBand ==
    pc = "counted" =>
        /\ target \in ClaimedBand(svc, level)
        /\ level = "other" => target = TargetCount(svc, "detailed", nSent)

\* C3's case: an unrecognised level whose target is decided by the ratio,
\* strictly inside the band.
C3_Witness ==
    /\ pc = "counted" /\ level = "other" /\ svc = "text"
    /\ target > 5 /\ target < 12

\* C4: for the same sentence count, comprehensive >= detailed >= brief.
C4_MonotonicLevels ==
    pc = "counted" =>
        /\ level = "brief" =>
              target <= TargetCount(svc, "detailed", nSent)
        /\ level \in {"detailed", "other"} =>
              /\ target >= TargetCount(svc, "brief", nSent)
              /\ target <= TargetCount(svc, "comprehensive", nSent)
        /\ level = "comprehensive" =>
              target >= TargetCount(svc, "detailed", nSent)

\* C4's case: a document long enough that all three levels have left their
\* minimum, computed at the middle level.
C4_Witness ==
    /\ pc = "counted" /\ level = "detailed" /\ svc = "doc"
    /\ target > 6
    /\ TargetCount(svc, "brief", nSent) > 4
    /\ TargetCount(svc, "comprehensive", nSent) > 12

---------------------------------------------------------------------------
\* Claims on selection (SpecSelect).

StrictlyIncreasing(q) == \A i \in 1..(Len(q) - 1) : q[i] < q[i + 1]

\* C1: the sentences of the main summary appear in strictly increasing order
\* of their original index, in both summarizers, the except branch of
\* generate_ensemble_summary included.
C1_OrderPreserved ==
    pc \notin {"summarize", "done"} => StrictlyIncreasing(summary)

\* C1's case: the except branch of the ensemble selected a proper subset that
\* is not the leading sentences.
C1_Witness ==
    /\ pc = "executive" /\ svc = "text" /\ "sumy" \in failed
    /\ Len(summary) < nSent
    /\ summary[1] > 1

\* C2: the main summary holds min(target, total) sentences and no index twice,
\* also for lists that hold the same text more than once.
C2_SelectionSize ==
    pc \notin {"summarize", "done"} =>
        /\ Len(summary) = Min(target, nSent)
        /\ Cardinality(Range(summary)) = Len(summary)
        /\ Range(summary) \subseteq 1..nSent

\* C2's case: the ensemble ran without a fault on a list with a repeated text
\* and fewer sentences were wanted than there are.
C2_Witness ==
    /\ pc = "executive" /\ svc = "text" /\ failed = {}
    /\ Cardinality(Range(sentences)) < nSent
    /\ target < nSent
    /\ \E i \in Range(summary) : \E j \in 1..nSent : j # i /\ sentences[j] = sentences[i]

\* C6: the executive summary is the 1 or 2 sentences of highest composite
\* score, emitted in ascending original index.  (The score part is stated for
\* lists of distinct texts scored without a fault.)
C6_ExecutiveTopInIndexOrder ==
    pc \in {"key_points", "topics"} =>
        /\ Len(executive) \in 1..2
        /\ StrictlyIncreasing(executive)
        /\ (failed \cap {"score_exec", "score_main"} = {} /\ Cardinality(Range(sentences)) = nSent) =>
              \A i \in Range(executive) :
                  \A j \in (1..nSent) \ Range(executive) : scores[i] >= scores[j]

\* C11: when scoring or selection failed, the main summary is the first N
\* sentences in document order (N the target count, capped by the number of
\* sentences), the executive summary is the first sentence alone, and nothing
\* is raised to the caller, in both summarizers.
C11_FallbackFirstN ==
    /\ resp # Failure
    /\ (svc = "doc" /\ pc \in {"topics", "key_points", "respond"}
           /\ "score_main" \in failed) =>
          /\ summary = Take(Idx(nSent), target)
          /\ executive = <<1>>
    /\ (svc = "text" /\ pc \in {"executive", "key_points", "respond"}
           /\ failed \cap {"sumy", "score_main"} # {}) =>
          summary = Take(Idx(nSent), target)
    /\ (svc = "text" /\ pc \in {"key_points", "respond"}
           /\ "score_exec" \in failed) =>
          executive = <<1>>

\* C12: a list of exactly 3 valid sentences is summarized, at any level and
\* whatever raised inside, as those 3 sentences, each once, in their order.
C12_ThreeSentencesKept ==
    nSent = 3 =>
        /\ resp # Failure
        /\ pc # "summarize" => summary = <<1, 2, 3>>

\* C12's case: the ensemble ran without a fault at level "brief" on three
\* sentences two of which have the same text.
C12_Witness ==
    /\ nSent = 3 /\ svc = "text" /\ level = "brief" /\ pc = "executive"
    /\ failed = {} /\ sentences = <<1, 2, 1>>
    /\ summary = <<1, 2, 3>>

---------------------------------------------------------------------------
\* Claims on key points (SpecPoints).

\* C5: every key point ends in ".", "!" or "?" and is the full wording of its
\* sentence: the sentence less some trailing whitespace and stray
\* punctuation, plus at most one appended period.
C5_KeyPointComplete ==
    pc = "pointed" =>
        /\ point # <<>> /\ point[Len(point)] \in Terminals
        /\ \E k \in 0..Len(sent) :
              /\ \A i \in (k + 1)..Len(sent) : sent[i] \in Stray
              /\ \/ point = SubSeq(sent, 1, k)
                 \/ point = Append(SubSeq(sent, 1, k), ".")

\* C5's case: a sentence of words that ends in stray punctuation, which the
\* text summarizer strips before it appends the period.
C5_Witness ==
    /\ pc = "pointed" /\ svc = "text"
    /\ Len(sent) >= 3 /\ sent[1] = "w" /\ sent[2] = "w"
    /\ sent[Len(sent)] \in Stray
    /\ Len(point) < Len(sent)

---------------------------------------------------------------------------
\* Claims on the request handlers (Spec).

PipelineSteps == {"normalize", "segment", "topics", "score", "select",
                  "executive", "key_points", "stats"}

\* The texts the specification calls EmptyInput.
TooShort == textBlank \/ textLen < (IF svc = "text" THEN 50 ELSE 100)

\* C7: a request whose text is empty or shorter than the minimum (50
\* characters for text, 100 for documents) is rejected and no step of the
\* pipeline, normalization and segmentation included, runs for it.
C7_ShortTextRejectedFirst ==
    TooShort =>
        /\ ran \cap PipelineSteps = {}
        /\ pc \notin {"normalize", "segment"}
        /\ pc = "done" => resp.code # 200
        /\ (pc = "done" /\ resp.kind \notin {"MissingDependency", "NoFile", "Unreadable"})
              => resp.kind = "EmptyInput"

\* C7's case: a document one character short of the minimum was rejected.
C7_Witness ==
    /\ pc = "done" /\ svc = "doc" /\ ~textBlank /\ textLen = MinDocChars - 1
    /\ resp.kind = "EmptyInput"

\* The minimum number of valid sentences as the specification states it.
ClaimedMinSentences(s) == IF s = "doc" THEN 2 ELSE 3

C9_RejectionsAreClientErrors ==
    resp.kind \in {"EmptyInput", "InsufficientContent"} => resp.code \in 400..499

\* C10: a request that passed both checks gets a success response with a
\* summary, whichever library call raised inside scoring, the ensemble, topic
\* extraction, the executive summary or the key points.
C10_AlwaysSummary ==
    (pc = "done" /\ "segment" \in ran /\ resp.kind # "InsufficientContent") =>
        /\ resp.code = 200 /\ resp.kind = "summary"
        /\ Len(summary) >= 1
        /\ PipelineSteps \subseteq ran

\* C10's case: sumy, the fallback's scoring, topic extraction and the scoring
\* inside the executive summary and the key points all raised, and the
\* response is a summary.
C10_Witness ==
    /\ pc = "done" /\ svc = "text" /\ resp.code = 200
    /\ failed = {"sumy", "score_fallback", "topics", "score_exec", "score_points"}

---------------------------------------------------------------------------
\* Claims on segmentation (SpecSegment).

\* A text that would be one valid sentence: long enough for the segmenter,
\* starting with an upper-case letter, ending its last word with a period,
\* and in which every period followed by white space belongs to an
\* abbreviation of the segmenter's list.
OneSentenceText(t) ==
    /\ Len(t) >= 4
    /\ t[1].first = "upper"
    /\ t[Len(t)].end = "stop"
    /\ \A i \in 1..(Len(t) - 1) : t[i].end # "stop"
    /\ \E i \in 1..(Len(t) - 1) : t[i].end = "abbr"

\* C13: for a text in which every period followed by white space belongs to
\* a listed abbreviation, both segmenters return exactly one sentence: the
\* abbreviations cause neither a split nor the loss of the sentence.
C13_AbbreviationsKeepOneSentence ==
    (pc = "segmented" /\ OneSentenceText(tokens)) => Len(valid) = 1

\* sen is a run of consecutive words of text, unchanged.
Verbatim(sen, text) ==
    \E a \in 1..Len(text) :
        /\ a + Len(sen) - 1 <= Len(text)
        /\ SubSeq(text, a, a + Len(sen) - 1) = sen

\* C24: masking and restoring the abbreviation periods leaves the text
\* unchanged: every sentence returned by split_sentences and by
\* split_into_sentences is a verbatim part of the normalized input, same
\* characters and same letter case.
C24_RestoreRoundTrip ==
    pc = "segmented" =>
        \A p \in 1..Len(valid) : Verbatim(valid[p], tokens)


---------------------------------------------------------------------------
\* Claims on normalization (SpecNormalize).

\* C14: normalization is idempotent: normalizing a normalized text changes
\* nothing, for preprocess_text and for clean_text, also when a URL or an
\* e-mail address stands between two words.
C14_NormalizeIdempotent ==
    pc = "normalized" => clean[2] = clean[1]

---------------------------------------------------------------------------
\* Claims on concurrent requests (SpecUpload).

\* C15: concurrent document requests do not affect each other: every request
\* gets the response it would get alone, computed from its own upload, also
\* when the uploads carry the same file name.
C15_RequestsIndependent ==
    \A r \in Requests : reqs[r].at = "done" => reqs[r].resp = Alone(r)

---------------------------------------------------------------------------
\* Claims on repeated requests and on ranking (SpecRuns).

Effective(tag) == IF tag \in lib.faults THEN UniformScore(nSent) ELSE scores

\* The score the main summary ranks sentence i by.
MainKey ==
    IF svc = "doc" THEN Effective("score_main")
    ELSE IF "sumy" \in lib.faults THEN Effective("score_fallback")
    ELSE [i \in 1..nSent |->
             combined_score(lib.votes[sentences[i]], Effective("score_main")[i])]

\* sel holds the best sentences by key, and of two sentences with the same
\* key of which one is in sel, it is the one with the lower index.
TopByScoreThenIndex(sel, key) ==
    \A i \in sel : \A j \in (1..nSent) \ sel :
        key[i] > key[j] \/ (key[i] = key[j] /\ i < j)

---------------------------------------------------------------------------
\* Claims on the statistics (SpecStats).

\* words / 200 rounded up to the next whole minute, at least 1
CeilMinutes(words) == Max(1, (words + WordsPerMinute - 1) \div WordsPerMinute)

\* C17: both reading times are the word count divided by 200, rounded up to
\* the next whole minute, with a minimum of 1.
C17_ReadingTimeRoundedUp ==
    pc = "stats" =>
        /\ statistics.reading_time_minutes = CeilMinutes(statistics.word_count)
        /\ statistics.summary_reading_time_minutes =
              CeilMinutes(statistics.summary_word_count)

\* C18 as stated: whenever the target count is smaller than the number of
\* sentences the summary has fewer words than the original and the
\* compression ratio is > 0; the summary never has more words than the
\* original and the ratio is never negative.
C18_Original ==
    pc = "stats" =>
        /\ statistics.summary_word_count <= statistics.word_count
        /\ statistics.compression_ratio >= 0
        /\ target < nSent =>
              /\ statistics.summary_word_count < statistics.word_count
              /\ statistics.compression_ratio > 0

\* C18 as amended: the summary never has more words than the original and
\* strictly fewer when the target count is smaller than the number of
\* sentences; the reported ratio, rounded to one decimal, is never negative,
\* is at least 0.1 when the words left out are at least 0.1% of the
\* original, and is 0.0 when they are less than 0.05% of it.
C18_CompressionRounded ==
    pc = "stats" =>
        LET w == statistics.word_count
            sw == statistics.summary_word_count
        IN  /\ sw <= w
            /\ statistics.compression_ratio >= 0
            /\ target < nSent => sw < w
            /\ 1000 * (w - sw) >= w => statistics.compression_ratio >= 1
            /\ 2000 * (w - sw) < w => statistics.compression_ratio = 0

\* C18's case: fewer sentences than there are were wanted, the sentence
\* left out is short and the selected ones are long.
C18_Witness ==
    /\ pc = "stats" /\ target < nSent
    /\ statistics.summary_word_count < statistics.word_count
    /\ statistics.compression_ratio = 0

---------------------------------------------------------------------------
\* Claims on scoring (SpecScore).

\* C20: every signal that enters the weighted sum lies in [0, 1], and so
\* does every composite score, in both scorers and for any sentence.
C20_SignalsBounded ==
    pc = "scored" =>
        /\ \A k \in DOMAIN score.signals : score.signals[k] \in 0..Unit
        /\ score.composite \in 0..(Unit * Unit)

\* The weights a scorer combines its signals with.
WeightsOf(s) == IF s = "text" THEN advanced_weights ELSE importance_weights

\* The sum of the weights, in hundredths.
SumWeights(w) == weighted_sum([k \in DOMAIN w |-> 1], w)

\* C21: the fixed weights of each scorer sum to 1.0, the 12 weights of
\* calculate_advanced_scores and the 5 of calculate_sentence_importance; each
\* is positive, so a composite score lies between the least and the greatest
\* of the signals combined.
C21_WeightsSumToOne ==
    pc = "scored" =>
        LET w == WeightsOf(svc)
        IN  /\ Cardinality(DOMAIN w) = (IF svc = "text" THEN 12 ELSE 5)
            /\ DOMAIN score.signals = DOMAIN w
            /\ \A k \in DOMAIN w : w[k] > 0
            /\ SumWeights(w) = Unit
            /\ \E lo \in DOMAIN w, hi \in DOMAIN w :
                   /\ Unit * score.signals[lo] <= score.composite
                   /\ score.composite <= Unit * score.signals[hi]

\* A sentence of the text summarizer is scored with signals that differ.
C21_Witness ==
    /\ pc = "scored" /\ svc = "text"
    /\ score.signals.tfidf = Unit /\ score.signals.centroid = 0
    /\ score.signals.length = Unit
    /\ score.composite = (22 + 12) * Unit + 14 * score.signals.position
                          + 3 * score.signals.completeness

\* The tiers of the position policy, by the values a scorer gives: the
\* greatest is the highest tier, the least the lowest, any other is medium.
PositionValues(s) == IF s = "text" THEN {60, 30, 40, 0} ELSE {100, 85, 40}

Tier(s, p) ==
    IF \A v \in PositionValues(s) : v <= p THEN "highest"
    ELSE IF \A v \in PositionValues(s) : v >= p THEN "lowest"
    ELSE "medium"

\* The tier the policy gives sentence idx (from 0) of total: the first 10%,
\* then the 10-25% range and the last 15% with the final sentence.
ClaimedTier(idx, total) ==
    IF 10 * idx < total THEN "highest"
    ELSE IF 4 * idx < total THEN "medium"
    ELSE IF idx = total - 1 \/ 20 * idx > 17 * total THEN "medium"
    ELSE "lowest"

\* C22: in a document of at least 3 sentences the position signal follows
\* the four-tier policy: the first 10% get the highest tier, the 10-25% range
\* and the last 10-15% (the final sentence included) a medium tier, every
\* other sentence the lowest tier, which is below the medium.
C22_PositionTiers ==
    (pc = "scored" /\ signals.total >= 3) =>
        /\ score.signals.position \in PositionValues(svc)
        /\ Tier(svc, score.signals.position)
              = ClaimedTier(signals.idx, signals.total)

---------------------------------------------------------------------------
\* Claims on the paragraphs (SpecParagraphs).

\* The sentences of a string, in order.
SentencesOf(str) == SelectSeq(str, LAMBDA t : t > 0)

RECURSIVE Concat(_)
Concat(qs) == IF qs = <<>> THEN <<>> ELSE Head(qs) \o Concat(Tail(qs))

---------------------------------------------------------------------------
\* Claims on the cached Whisper model (SpecWhisper).

\* C25: the model is loaded once and reused: at most one load is in progress
\* at any time, also after an earlier load attempt has failed.
C25_OneLoadAtATime ==
    Cardinality({l \in Calls : Loading(l)}) <= 1

\* A step of the thread serving call r.
RequestStep(r) ==
    ReadGlobals(r) \/ PreloadMark(r) \/ StartThread(r) \/ Transcribe(r)

\* C26: transcribe_whisper_fast never blocks on model loading: its thread
\* can always take its next step, it loads no model itself; with the cached
\* model absent it returns None, marking and starting a background preload
\* only when none is marked in progress; it calls model.transcribe only when
\* it found the cached model present.
C26_NeverBlocksOnLoading ==
    [][\A r \in Calls :
          /\ request[r].pc # "return" => ENABLED RequestStep(r)
          /\ request'[r].pc \in {"call", "preload", "start_thread",
                                 "transcribe", "return"}
          /\ (request[r].pc # "transcribe" /\ request'[r].pc = "transcribe")
                => (whisper_model # "None" /\ request'[r].model = whisper_model)
          /\ (request'[r].pc = "return" /\ request'[r].model = "None")
                => request'[r].result = "None"
          /\ (request[r].pc # "start_thread" /\ request'[r].pc = "start_thread")
                => (~whisper_loading /\ whisper_model = "None")
          /\ (loader[r].pc = "unborn" /\ loader'[r].pc # "unborn")
                => (request[r].pc = "start_thread" /\ loader'[r].pc = "get")
          /\ (Loading(r) \/ loader'[r].pc \in {"load_medium", "load_base"})
                => request'[r] = request[r]
      ]_vars

\* One call found no model and started the preload, one found the load
\* marked and returned, one used the loaded model.
C26_Witness ==
    \E a \in Calls, b \in Calls, c \in Calls :
        /\ request[a].pc = "return" /\ loader[a].pc # "unborn"
        /\ request[b].pc = "return" /\ request[b].loading
        /\ request[b].result = "None" /\ loader[b].pc = "unborn"
        /\ request[c].result = "whisper"

---------------------------------------------------------------------------
\* Claims on smart_transcribe (SpecTranscribe).

\* The results the engines gave in this call.
Obtained == {transcript.calls[i] : i \in 1..Len(transcript.calls)} \ {NoResult}

\* The engines smart_transcribe is meant to try for the duration, in order.
MeantToTry ==
    IF audio.duration < ShortAudio THEN <<"google", "whisper">>
    ELSE <<"whisper", "google">>

\* C28: smart_transcribe returns the result of highest confidence among the
\* results it obtained in the call, and None only when every engine it is
\* meant to try for the duration gave nothing; under 30 s a Google result of
\* confidence 0.80 or more is returned without calling Whisper; from 30 s on
\* Google is tried only after Whisper gave nothing.
C28_HighestConfidence ==
    pc = "transcribed" =>
        LET r == transcript.returned
            short == audio.duration < ShortAudio
        IN  /\ r # NoResult =>
                  /\ r \in Obtained
                  /\ \A o \in Obtained : o.confidence <= r.confidence
            /\ r = NoResult <=>
                  /\ transcript.tried = MeantToTry
                  /\ Obtained = {}
            /\ (short /\ audio.google_first # NoResult
                      /\ audio.google_first.confidence >= 80) =>
                  /\ r = audio.google_first
                  /\ transcript.tried = <<"google">>
            /\ ~short =>
                  /\ transcript.tried[1] = "whisper"
                  /\ transcript.calls[1] = audio.whisper
                  /\ Len(transcript.tried) = 2 =>
                        /\ transcript.tried[2] = "google"
                        /\ audio.whisper = NoResult

\* Short audio: Google is 0.79 sure and Whisper 0.99, Whisper's is returned.
C28_Witness ==
    /\ pc = "transcribed"
    /\ audio.duration < ShortAudio
    /\ audio.google_first.confidence = HighConfidence - 1
    /\ transcript.tried = <<"google", "whisper">>
    /\ transcript.returned = [engine |-> "whisper", confidence |-> 99]

---------------------------------------------------------------------------
\* Claims on the launcher (SpecLauncher).

\* C29: when Ctrl+C is pressed at any moment after the first service was
\* started, every started service is terminated, or killed, before the
\* launcher exits: no started service is left running.
C29_CtrlCStopsEveryService ==
    (launcher.pressed /\ launcher.pc = "exited") =>
        \A p \in SERVICES : proc[p] # "running"

---------------------------------------------------------------------------
\* Claims on the plagiarism checker (SpecPlagiarism).

\* C30: every reported sentence similarity lies in [0, 1] and the overall
\* percentage in [0, 100], also for a sentence identical to a corpus entry;
\* a sentence is 'original' exactly when its similarity is at most 0.35, and
\* flaggedCount is the number of analysed sentences that are not 'original'.
C30_SimilarityInRange ==
    pc = "analysed" =>
        LET results == response_data.sentenceAnalysis
        IN  /\ \A i \in 1..Len(results) :
                  /\ results[i].similarity \in 0..One
                  /\ results[i].severity = "original"
                        <=> results[i].similarity <= 35000
            /\ response_data.percentage \in 0..1000
            /\ response_data.flaggedCount =
                  Cardinality({i \in 1..Len(results) :
                                  results[i].severity # "original"})

===========================================================================
